---------------------------- MODULE Spec2Model ----------------------------
(***************************************************************************)
(* A model of http-platform-go: configuration and construction (New),      *)
(* the platform lifecycle (Start / Stop), and the per-request middleware   *)
(* chain (TraceID, ErrorHandler, ContextCancellation, CORS, Telemetry,     *)
(* BasicLogger, WithTimeout, route handler).                               *)
(*                                                                         *)
(* Three specifications share the variables below:                         *)
(*   SpecConfig     a caller prepares a Config and options and calls New   *)
(*   SpecLifecycle  callers invoke Start and Stop on one Platform          *)
(*   SpecRequest    one request travels through the middleware chain       *)
(***************************************************************************)
EXTENDS Integers, Sequences, FiniteSets, TLC

VARIABLES
    \* ---- configuration / construction
    cfg,          \* the Config value the caller passes to New
    opts,         \* the options the caller passes to New, in order
    edits,        \* number of direct field assignments the caller made
    newResult,    \* what New returned: NotCalled, or [platform, err]
    \* ---- platform lifecycle (one Platform value, several callers)
    tm,           \* p.telemetryManager # nil
    started,      \* p.started
    mu,           \* p.mu: Free, or the caller holding it
    serverSet,    \* p.server # nil
    serversCreated, \* how many http.Server values Start has created
    inShutdown,   \* the http.Server's inShutdown flag
    listening,    \* the http.Server's listener is open
    active,       \* connections accepted and still being served
    pc,           \* each caller's position in Start / Stop
    ctxDone,      \* each caller's context is cancelled
    quit,         \* each Start call's signal channel: "none", "empty", "full"
    errChan,      \* each Start call's error channel: "none", "empty", "err"
    serve,        \* each Start call's background task
    shutdownErrors, \* each call's accumulated shutdown errors
    ret,          \* the value each caller's last call returned
    logs,         \* the entries each caller's current call has sent to the logger
    calls,        \* the calls each caller's current call has made on the server,
                  \* the telemetry manager and the logger's Close, in order
    \* ---- one request through the middleware chain
    rq,           \* the request and its route: inbound header, the router's config,
                  \* handlers, handler behaviour
    ginCtx,       \* the request's gin.Context (c in the middleware)
    stack,        \* middleware whose c.Next() has not returned, outermost first
    phase,        \* what the serving goroutine is doing
    panicValue,   \* the value of the panic being unwound
    worker,       \* the goroutine WithTimeout spawned
    reqCtx,       \* the request context's error: "nil" or "Canceled"
    timer,        \* the context WithTimeout derived: "none", "running", or its error
    rlogs         \* the entries the request has sent to the logger, in order

cfgVars == <<cfg, opts, edits, newResult>>

lifeVars == <<tm, started, mu, serverSet, serversCreated, inShutdown, listening,
              active, pc, ctxDone, quit, errChan, serve, shutdownErrors,
              ret, logs, calls>>

reqVars == <<rq, ginCtx, stack, phase, panicValue, worker, reqCtx, timer, rlogs>>

vars == <<cfg, opts, edits, newResult,
          tm, started, mu, serverSet, serversCreated, inShutdown, listening,
          active, pc, ctxDone, quit, errChan, serve, shutdownErrors,
          ret, logs, calls,
          rq, ginCtx, stack, phase, panicValue, worker, reqCtx, timer, rlogs>>

\* ------------------------------------------------------------------------
\* Bounds of the model
\* ------------------------------------------------------------------------
MaxOpts == 2
MaxEdits == 2
NumCallers == 2
MaxActive == 1

\* ------------------------------------------------------------------------
\* Config, DefaultConfig, Validate, options        (models/config.go)
\* ------------------------------------------------------------------------
NoLogger == "nil"
TheLogger == "logger"
NoError == "nil"

Wildcard == <<"*">>
OneOrigin == <<"https://myapp.com">>
MixedOrigins == <<"*", "https://myapp.com">>

MaxHeaderBytesDefault == 1048576

\* The newest Config carries a toggle for the context-cancellation
\* middleware (NewGinRouter reads cfg.EnableContextCancellation); its default
\* is documented as enabled.
DefaultEnableContextCancellation == TRUE

\* Durations are in seconds.
DefaultConfig ==
    [ Port |-> 8080,
      Mode |-> "debug",
      ReadTimeout |-> 30,
      WriteTimeout |-> 30,
      IdleTimeout |-> 60,
      MaxHeaderBytes |-> MaxHeaderBytesDefault,
      Logger |-> NoLogger,
      AllowedOrigins |-> Wildcard,
      AllowCredentials |-> TRUE,
      EnableTraceID |-> TRUE,
      EnableCORS |-> TRUE,
      EnableRecovery |-> TRUE,
      EnableLogger |-> TRUE,
      EnableContextCancellation |-> DefaultEnableContextCancellation,
      EnableTelemetry |-> FALSE ]

\* Validate returns the first violated rule, in the order of the checks.
Validate(c) ==
    IF c.Logger = NoLogger THEN "ErrNilLogger"
    ELSE IF c.Port <= 0 \/ c.Port > 65535 THEN "ErrInvalidPort"
    ELSE IF c.Mode # "debug" /\ c.Mode # "release" /\ c.Mode # "test"
         THEN "ErrInvalidMode"
    ELSE IF c.ReadTimeout <= 0 THEN "readTimeout must be positive"
    ELSE IF c.WriteTimeout <= 0 THEN "writeTimeout must be positive"
    ELSE IF c.IdleTimeout <= 0 THEN "idleTimeout must be positive"
    ELSE NoError

\* An option is a record [f |-> field, v |-> value]: every With... option of
\* config.go assigns its argument to one field (WithTelemetry also assigns
\* the service strings, which the model does not carry).
WithPort(port) == [f |-> "Port", v |-> port]
WithMode(mode) == [f |-> "Mode", v |-> mode]
WithLogger(logger) == [f |-> "Logger", v |-> logger]
WithReadTimeout(t) == [f |-> "ReadTimeout", v |-> t]
WithWriteTimeout(t) == [f |-> "WriteTimeout", v |-> t]
WithIdleTimeout(t) == [f |-> "IdleTimeout", v |-> t]
WithCORS(origins) == [f |-> "AllowedOrigins", v |-> origins]
WithAllowCredentials(allow) == [f |-> "AllowCredentials", v |-> allow]
WithoutTraceID == [f |-> "EnableTraceID", v |-> FALSE]
WithoutCORS == [f |-> "EnableCORS", v |-> FALSE]
WithoutRecovery == [f |-> "EnableRecovery", v |-> FALSE]
WithoutLogger == [f |-> "EnableLogger", v |-> FALSE]
WithTelemetry == [f |-> "EnableTelemetry", v |-> TRUE]
WithoutTelemetry == [f |-> "EnableTelemetry", v |-> FALSE]

\* opt(&cfg)
ApplyOption(c, o) == [c EXCEPT ![o.f] = o.v]

\* for _, opt := range opts { opt(&cfg) }
RECURSIVE ApplyOptions(_, _)
ApplyOptions(c, os) ==
    IF os = <<>> THEN c
    ELSE ApplyOptions(ApplyOption(c, Head(os)), Tail(os))

\* ------------------------------------------------------------------------
\* CORS middleware constructor                     (middleware/cors.go)
\* ------------------------------------------------------------------------
\* The cors.Config handed to cors.New.  A mutant that forgets the override.
CORSPassThrough(c) ==
    LET allowAllOrigins == Len(c.AllowedOrigins) = 1 /\ c.AllowedOrigins[1] = "*"
    IN [ AllowAllOrigins |-> allowAllOrigins,
         AllowOrigins |-> IF allowAllOrigins THEN <<>> ELSE c.AllowedOrigins,
         AllowCredentials |-> c.AllowCredentials ]

CORS(c) ==
    LET allowAllOrigins == Len(c.AllowedOrigins) = 1 /\ c.AllowedOrigins[1] = "*"
    IN [ AllowAllOrigins |-> allowAllOrigins,
         AllowOrigins |-> IF allowAllOrigins THEN <<>> ELSE c.AllowedOrigins,
         AllowCredentials |-> IF allowAllOrigins THEN FALSE ELSE c.AllowCredentials ]

NoPolicy == [ AllowAllOrigins |-> FALSE, AllowOrigins |-> <<>>,
              AllowCredentials |-> FALSE ]

\* ------------------------------------------------------------------------
\* Router adapter                                  (NewGinRouter)
\* ------------------------------------------------------------------------
\* A mutant that installs the error handler only under the recovery toggle.
NewGinRouterRecoveryToggle(c) ==
    [ chain |->
        (IF c.EnableTraceID THEN <<"TraceID">> ELSE <<>>)
        \o (IF c.EnableRecovery THEN <<"ErrorHandler">> ELSE <<>>)
        \o (IF c.EnableContextCancellation THEN <<"ContextCancellation">> ELSE <<>>)
        \o (IF c.EnableCORS THEN <<"CORS">> ELSE <<>>)
        \o (IF c.EnableTelemetry THEN <<"Telemetry">> ELSE <<>>)
        \o (IF c.EnableLogger THEN <<"BasicLogger">> ELSE <<>>),
      cors |-> IF c.EnableCORS THEN CORS(c) ELSE NoPolicy ]

\* The engine's global middleware, in the order of the engine.Use calls.
NewGinRouter(c) ==
    [ chain |->
        (IF c.EnableTraceID THEN <<"TraceID">> ELSE <<>>)
        \o <<"ErrorHandler">>
        \o (IF c.EnableContextCancellation THEN <<"ContextCancellation">> ELSE <<>>)
        \o (IF c.EnableCORS THEN <<"CORS">> ELSE <<>>)
        \o (IF c.EnableTelemetry THEN <<"Telemetry">> ELSE <<>>)
        \o (IF c.EnableLogger THEN <<"BasicLogger">> ELSE <<>>),
      cors |-> IF c.EnableCORS THEN CORS(c) ELSE NoPolicy ]

\* ------------------------------------------------------------------------
\* New                                             (platform.go)
\* ------------------------------------------------------------------------
NotCalled == [called |-> FALSE]
NoPlatform == [exists |-> FALSE]

\* A mutant that validates only after the options were applied.
NewReturnOptionsFirst(c, os, tmOk) ==
    LET c2 == ApplyOptions(c, os) IN
    IF Validate(c2) # NoError
    THEN [called |-> TRUE, err |-> Validate(c2), platform |-> NoPlatform,
          logged |-> {}]
    ELSE [called |-> TRUE, err |-> NoError,
          platform |-> [ exists |-> TRUE,
                         config |-> c2,
                         router |-> NewGinRouter(c2),
                         telemetryManager |-> c2.EnableTelemetry /\ tmOk ],
          logged |-> IF ~c2.EnableTelemetry THEN {}
                     ELSE IF tmOk THEN {"telemetry initialized successfully"}
                     ELSE {"failed to initialize telemetry"} ]

\* The value New returns for base config c, options os and the outcome
\* tmOk of telemetry.Init (read only when telemetry is enabled).
NewReturn(c, os, tmOk) ==
    IF Validate(c) # NoError
    THEN [called |-> TRUE, err |-> Validate(c), platform |-> NoPlatform,
          logged |-> {}]
    ELSE LET c2 == ApplyOptions(c, os) IN
         IF Validate(c2) # NoError
         THEN [called |-> TRUE, err |-> Validate(c2), platform |-> NoPlatform,
               logged |-> {}]
         ELSE [called |-> TRUE, err |-> NoError,
               platform |-> [ exists |-> TRUE,
                              config |-> c2,
                              router |-> NewGinRouter(c2),
                              telemetryManager |-> c2.EnableTelemetry /\ tmOk ],
               logged |-> IF ~c2.EnableTelemetry THEN {}
                          ELSE IF tmOk THEN {"telemetry initialized successfully"}
                          ELSE {"failed to initialize telemetry"} ]

\* ------------------------------------------------------------------------
\* The state of a Platform right after New
\* ------------------------------------------------------------------------
Callers == 1..NumCallers
Free == 0

LifeIdle ==
    /\ tm = FALSE
    /\ started = FALSE
    /\ mu = Free
    /\ serverSet = FALSE
    /\ serversCreated = 0
    /\ inShutdown = FALSE
    /\ listening = FALSE
    /\ active = 0
    /\ pc = [p \in Callers |-> "idle"]
    /\ ctxDone = [p \in Callers |-> FALSE]
    /\ quit = [p \in Callers |-> "none"]
    /\ errChan = [p \in Callers |-> "none"]
    /\ serve = [p \in Callers |-> "none"]
    /\ shutdownErrors = [p \in Callers |-> <<>>]
    /\ ret = [p \in Callers |-> "none"]
    /\ logs = [p \in Callers |-> {}]
    /\ calls = [p \in Callers |-> <<>>]

\* no request is in flight
ReqIdle ==
    /\ rq = "none"
    /\ ginCtx = "none"
    /\ stack = <<>>
    /\ phase = "none"
    /\ panicValue = "none"
    /\ worker = "none"
    /\ reqCtx = "nil"
    /\ timer = "none"
    /\ rlogs = <<>>

\* ------------------------------------------------------------------------
\* The caller of New
\* ------------------------------------------------------------------------
\* Values a caller assigns to a field of the config before calling New
\* (cfg.Logger = logger, cfg.AllowedOrigins = ..., as in the documentation),
\* or passes through an option.
Assignments ==
    { WithLogger(TheLogger), WithPort(0), WithPort(70000), WithPort(65535),
      WithMode("release"), WithMode("production"),
      WithReadTimeout(0), WithWriteTimeout(0), WithIdleTimeout(0),
      WithCORS(OneOrigin), WithCORS(MixedOrigins), WithCORS(Wildcard),
      WithAllowCredentials(FALSE), WithAllowCredentials(TRUE) }

Options ==
    { WithLogger(TheLogger), WithPort(8080), WithPort(70000),
      WithMode("release"), WithMode("production"),
      WithReadTimeout(0), WithIdleTimeout(0),
      WithCORS(OneOrigin), WithCORS(Wildcard),
      WithAllowCredentials(FALSE), WithAllowCredentials(TRUE),
      WithoutCORS, WithoutLogger, WithTelemetry }

InitConfig ==
    /\ cfg = DefaultConfig
    /\ opts = <<>>
    /\ edits = 0
    /\ newResult = NotCalled
    /\ LifeIdle
    /\ ReqIdle

\* cfg.<field> = <value>, before New is called
CallerAssign ==
    /\ ~newResult.called
    /\ opts = <<>>
    /\ edits < MaxEdits
    /\ \E a \in Assignments :
          /\ cfg[a.f] # a.v
          /\ cfg' = ApplyOption(cfg, a)
    /\ edits' = edits + 1
    /\ UNCHANGED <<opts, newResult>>
    /\ UNCHANGED <<lifeVars, reqVars>>

\* the caller adds one more option to the call
CallerAddOption ==
    /\ ~newResult.called
    /\ Len(opts) < MaxOpts
    /\ \E o \in Options : opts' = Append(opts, o)
    /\ UNCHANGED <<cfg, edits, newResult>>
    /\ UNCHANGED <<lifeVars, reqVars>>

\* platform, err := New(cfg, opts...)
New ==
    /\ ~newResult.called
    /\ \E tmOk \in BOOLEAN : newResult' = NewReturn(cfg, opts, tmOk)
    /\ UNCHANGED <<cfg, opts, edits>>
    /\ UNCHANGED <<lifeVars, reqVars>>

NextConfig == CallerAssign \/ CallerAddOption \/ New

SpecConfig == InitConfig /\ [][NextConfig]_vars

\* ------------------------------------------------------------------------
\* Platform.Start                                   (platform.go)
\* ------------------------------------------------------------------------
InitLifecycle ==
    /\ cfg = DefaultConfig
    /\ opts = <<>>
    /\ edits = 0
    /\ newResult = NotCalled
    /\ ReqIdle
    /\ tm \in BOOLEAN
    /\ started = FALSE
    /\ mu = Free
    /\ serverSet = FALSE
    /\ serversCreated = 0
    /\ inShutdown = FALSE
    /\ listening = FALSE
    /\ active = 0
    /\ pc = [p \in Callers |-> "idle"]
    /\ ctxDone = [p \in Callers |-> FALSE]
    /\ quit = [p \in Callers |-> "none"]
    /\ errChan = [p \in Callers |-> "none"]
    /\ serve = [p \in Callers |-> "none"]
    /\ shutdownErrors = [p \in Callers |-> <<>>]
    /\ ret = [p \in Callers |-> "none"]
    /\ logs = [p \in Callers |-> {}]
    /\ calls = [p \in Callers |-> <<>>]

\* p.mu.Lock() proceeds only while nobody holds the lock.
LockFree(p) == mu = Free

\* A caller calls platform.Start(ctx) with a context of its own; the call
\* goes on once p.mu.Lock() is granted.  A call waiting for the lock has done
\* nothing yet: it is a caller still idle.
StartLock(p) ==
    /\ UNCHANGED <<cfgVars, reqVars>>
    /\ pc[p] = "idle"
    /\ LockFree(p)
    /\ mu' = p
    /\ pc' = [pc EXCEPT ![p] = "s_check"]
    /\ UNCHANGED <<tm, calls, started, serverSet, serversCreated, inShutdown, listening,
                   active, ctxDone, quit, errChan, serve, shutdownErrors,
                   ret, logs>>

\* if p.started { p.mu.Unlock(); return errors.ErrAlreadyStarted() }
\* p.started = true; p.mu.Unlock()
\* A mutant that sets the flag without testing it.
StartCheckNoTest(p) ==
    /\ UNCHANGED <<cfgVars, reqVars>>
    /\ pc[p] = "s_check"
    /\ started' = TRUE
    /\ mu' = Free
    /\ pc' = [pc EXCEPT ![p] = "s_server"]
    /\ UNCHANGED <<tm, calls, serverSet, serversCreated, inShutdown, listening, active,
                   ctxDone, quit, errChan, serve, shutdownErrors, ret, logs>>

StartCheck(p) ==
    /\ UNCHANGED <<cfgVars, reqVars>>
    /\ pc[p] = "s_check"
    /\ \/ /\ started
          /\ ret' = [ret EXCEPT ![p] = "ErrAlreadyStarted"]
          /\ pc' = [pc EXCEPT ![p] = "done"]
          /\ UNCHANGED started
       \/ /\ ~started
          /\ started' = TRUE
          /\ pc' = [pc EXCEPT ![p] = "s_server"]
          /\ UNCHANGED ret
    /\ mu' = Free
    /\ UNCHANGED <<tm, calls, serverSet, serversCreated, inShutdown, listening, active,
                   ctxDone, quit, errChan, serve, shutdownErrors, logs>>

\* p.server = &http.Server{...}   (a new server: not listening, not shut down)
\* quit := make(chan os.Signal, 1); signal.Notify(quit, SIGINT, SIGTERM)
\* errChan := make(chan error, 1); go func() {...}()
StartServer(p) ==
    /\ UNCHANGED <<cfgVars, reqVars>>
    /\ pc[p] = "s_server"
    /\ serverSet' = TRUE
    /\ serversCreated' = serversCreated + 1
    /\ inShutdown' = FALSE
    /\ listening' = FALSE
    /\ quit' = [quit EXCEPT ![p] = "empty"]
    /\ errChan' = [errChan EXCEPT ![p] = "empty"]
    /\ serve' = [serve EXCEPT ![p] = "spawned"]
    /\ pc' = [pc EXCEPT ![p] = "s_select"]
    /\ UNCHANGED <<tm, calls, started, mu, active, ctxDone, shutdownErrors, ret, logs>>

\* The background task: Logger.Info("server started"); ListenAndServe().
\* (The task's log entry belongs to no call: serve[p] past "spawned" stands
\* for it.)
\* ListenAndServe returns ErrServerClosed at once when the server is already
\* shutting down; otherwise it opens the listener, or fails to (the port is
\* taken) and the task sends the error on errChan.
ServeListen(p) ==
    /\ UNCHANGED <<cfgVars, reqVars>>
    /\ serve[p] = "spawned"
    /\ \/ /\ inShutdown
          /\ serve' = [serve EXCEPT ![p] = "exited"]
          /\ UNCHANGED <<listening, errChan>>
       \/ /\ ~inShutdown
          /\ listening' = TRUE
          /\ serve' = [serve EXCEPT ![p] = "serving"]
          /\ UNCHANGED errChan
       \/ /\ ~inShutdown
          /\ errChan' = [errChan EXCEPT ![p] = "err"]
          /\ serve' = [serve EXCEPT ![p] = "exited"]
          /\ UNCHANGED listening
    /\ UNCHANGED <<tm, calls, started, mu, serverSet, serversCreated, inShutdown, active,
                   pc, ctxDone, quit, shutdownErrors, ret, logs>>

\* A mutant whose task reports the server-closed result as an error.
ServeExitSendsError(p) ==
    /\ UNCHANGED <<cfgVars, reqVars>>
    /\ serve[p] = "serving"
    /\ inShutdown
    /\ serve' = [serve EXCEPT ![p] = "exited"]
    /\ errChan' = [errChan EXCEPT ![p] = "err"]
    /\ UNCHANGED <<tm, calls, started, mu, serverSet, serversCreated, inShutdown,
                   listening, active, pc, ctxDone, quit, shutdownErrors, ret,
                   logs>>

\* Serve returns ErrServerClosed once the server is shut down: the task ends
\* and sends nothing.
ServeExit(p) ==
    /\ UNCHANGED <<cfgVars, reqVars>>
    /\ serve[p] = "serving"
    /\ inShutdown
    /\ serve' = [serve EXCEPT ![p] = "exited"]
    /\ UNCHANGED <<tm, calls, started, mu, serverSet, serversCreated, inShutdown,
                   listening, active, pc, ctxDone, quit, errChan,
                   shutdownErrors, ret, logs>>

\* A mutant that lets a new Start follow a failed start: the flag is cleared
\* when the startup error is returned.
StartSelectResetsOnError(p) ==
    /\ UNCHANGED <<cfgVars, reqVars>>
    /\ pc[p] = "s_select"
    /\ \/ /\ quit[p] = "full"
          /\ quit' = [quit EXCEPT ![p] = "empty"]
          /\ logs' = [logs EXCEPT ![p] = @ \cup {"shutdown signal received"}]
          /\ pc' = [pc EXCEPT ![p] = "s_shutdown"]
          /\ UNCHANGED <<errChan, ret, started>>
       \/ /\ ctxDone[p]
          /\ logs' = [logs EXCEPT ![p] = @ \cup {"context cancelled, shutting down"}]
          /\ pc' = [pc EXCEPT ![p] = "s_shutdown"]
          /\ UNCHANGED <<quit, errChan, ret, started>>
       \/ /\ errChan[p] = "err"
          /\ errChan' = [errChan EXCEPT ![p] = "empty"]
          /\ ret' = [ret EXCEPT ![p] = "server failed to start"]
          /\ pc' = [pc EXCEPT ![p] = "done"]
          /\ started' = FALSE
          /\ UNCHANGED <<quit, logs>>
    /\ UNCHANGED <<tm, calls, mu, serverSet, serversCreated, inShutdown,
                   listening, active, ctxDone, serve, shutdownErrors>>

\* select { case <-quit: ... case <-ctx.Done(): ... case err := <-errChan: return err }
StartSelect(p) ==
    /\ UNCHANGED <<cfgVars, reqVars>>
    /\ pc[p] = "s_select"
    /\ \/ /\ quit[p] = "full"
          /\ quit' = [quit EXCEPT ![p] = "empty"]
          /\ logs' = [logs EXCEPT ![p] = @ \cup {"shutdown signal received"}]
          /\ pc' = [pc EXCEPT ![p] = "s_shutdown"]
          /\ UNCHANGED <<errChan, ret>>
       \/ /\ ctxDone[p]
          /\ logs' = [logs EXCEPT ![p] = @ \cup {"context cancelled, shutting down"}]
          /\ pc' = [pc EXCEPT ![p] = "s_shutdown"]
          /\ UNCHANGED <<quit, errChan, ret>>
       \/ /\ errChan[p] = "err"
          /\ errChan' = [errChan EXCEPT ![p] = "empty"]
          /\ ret' = [ret EXCEPT ![p] = "server failed to start"]
          /\ pc' = [pc EXCEPT ![p] = "done"]
          /\ UNCHANGED <<quit, logs>>
    /\ UNCHANGED <<tm, calls, started, mu, serverSet, serversCreated, inShutdown,
                   listening, active, ctxDone, serve, shutdownErrors>>

\* shutdownCtx := context.WithTimeout(context.Background(), 5*time.Second)
\* p.server.Shutdown(shutdownCtx) begins: the server is marked as shutting
\* down and its listener is closed.
StartShutdown(p) ==
    /\ UNCHANGED <<cfgVars, reqVars>>
    /\ pc[p] = "s_shutdown"
    /\ logs' = [logs EXCEPT ![p] = @ \cup {"shutting down server..."}]
    /\ inShutdown' = TRUE
    /\ listening' = FALSE
    /\ calls' = [calls EXCEPT ![p] = Append(@, "server.Shutdown")]
    /\ pc' = [pc EXCEPT ![p] = "s_shutwait"]
    /\ UNCHANGED <<tm, started, mu, serverSet, serversCreated, active, ctxDone, quit, errChan, serve, shutdownErrors, ret>>

\* A mutant whose shutdown context has no deadline: Shutdown returns only
\* when every connection has finished.
StartShutdownWaitNoDeadline(p) ==
    /\ UNCHANGED <<cfgVars, reqVars>>
    /\ pc[p] = "s_shutwait"
    /\ active = 0
    /\ pc' = [pc EXCEPT ![p] = "s_finish"]
    /\ UNCHANGED <<tm, calls, started, mu, serverSet, serversCreated, inShutdown,
                   listening, active, ctxDone, quit, errChan, serve,
                   shutdownErrors, ret, logs>>

\* p.server.Shutdown(shutdownCtx) returns: nil once no connection is active,
\* or the context's error when the 5-second deadline passes first.
StartShutdownWait(p) ==
    /\ UNCHANGED <<cfgVars, reqVars>>
    /\ pc[p] = "s_shutwait"
    /\ \/ /\ active = 0
          /\ UNCHANGED <<shutdownErrors, logs>>
       \/ /\ active > 0
          /\ logs' = [logs EXCEPT ![p] = @ \cup {"error during server shutdown"}]
          /\ shutdownErrors' = [shutdownErrors EXCEPT
                                  ![p] = Append(@, "server shutdown failed")]
    /\ pc' = [pc EXCEPT ![p] = "s_finish"]
    /\ UNCHANGED <<tm, calls, started, mu, serverSet, serversCreated, inShutdown,
                   listening, active, ctxDone, quit, errChan, serve, ret>>

\* The errors the telemetry shutdown adds to errs, by its outcome.
TelemetryErrors(errs, ok) ==
    IF ok THEN errs ELSE Append(errs, "telemetry shutdown failed")

\* if p.telemetryManager != nil { ... p.telemetryManager.Shutdown(ctx) ... }
\* The calls made so far, and the one this step adds when there is a manager.
TelemetryShutdown(made, manager) ==
    IF manager THEN Append(made, "telemetryManager.Shutdown") ELSE made

\* A mutant that returns the last accumulated error.
LastError(errs) == IF Len(errs) > 0 THEN errs[Len(errs)] ELSE "nil"

\* return shutdownErrors[0], or nil
FirstError(errs) == IF Len(errs) > 0 THEN errs[1] ELSE "nil"

\* A mutant that closes the logger after a graceful stop.
StartFinishClosesLogger(p) ==
    /\ UNCHANGED <<cfgVars, reqVars>>
    /\ pc[p] = "s_finish"
    /\ \E ok \in (IF tm THEN BOOLEAN ELSE {TRUE}) :
          LET errs == TelemetryErrors(shutdownErrors[p], ok) IN
          /\ shutdownErrors' = [shutdownErrors EXCEPT ![p] = errs]
          /\ ret' = [ret EXCEPT ![p] = FirstError(errs)]
          /\ logs' = [logs EXCEPT ![p] = @
                \cup (IF tm THEN {"shutting down telemetry..."} ELSE {})
                \cup (IF tm /\ ok THEN {"telemetry shutdown complete"} ELSE {})
                \cup (IF ~ok THEN {"error shutting down telemetry"} ELSE {})
                \cup (IF Len(errs) > 0 THEN {"server stopped with errors"}
                                       ELSE {"server stopped gracefully"})]
          /\ calls' = [calls EXCEPT ![p] =
                IF Len(errs) > 0 THEN TelemetryShutdown(@, tm)
                ELSE Append(TelemetryShutdown(@, tm), "Logger.Close")]
    /\ pc' = [pc EXCEPT ![p] = "done"]
    /\ UNCHANGED <<tm, started, mu, serverSet, serversCreated, inShutdown,
                   listening, active, ctxDone, quit, errChan, serve>>

\* if p.telemetryManager != nil { p.telemetryManager.Shutdown(shutdownCtx) }
\* if len(shutdownErrors) > 0 { ...; return shutdownErrors[0] }; ...; return nil
StartFinish(p) ==
    /\ UNCHANGED <<cfgVars, reqVars>>
    /\ pc[p] = "s_finish"
    /\ \E ok \in (IF tm THEN BOOLEAN ELSE {TRUE}) :
          LET errs == TelemetryErrors(shutdownErrors[p], ok) IN
          /\ shutdownErrors' = [shutdownErrors EXCEPT ![p] = errs]
          /\ ret' = [ret EXCEPT ![p] = FirstError(errs)]
          /\ logs' = [logs EXCEPT ![p] = @
                \cup (IF tm THEN {"shutting down telemetry..."} ELSE {})
                \cup (IF tm /\ ok THEN {"telemetry shutdown complete"} ELSE {})
                \cup (IF ~ok THEN {"error shutting down telemetry"} ELSE {})
                \cup (IF Len(errs) > 0 THEN {"server stopped with errors"}
                                       ELSE {"server stopped gracefully"})]
    /\ calls' = [calls EXCEPT ![p] = TelemetryShutdown(@, tm)]
    /\ pc' = [pc EXCEPT ![p] = "done"]
    /\ UNCHANGED <<tm, started, mu, serverSet, serversCreated, inShutdown,
                   listening, active, ctxDone, quit, errChan, serve>>

\* ------------------------------------------------------------------------
\* Platform.Stop                                    (platform.go)
\* ------------------------------------------------------------------------
\* A caller calls platform.Stop(ctx) with a context of its own; the call
\* goes on once the lock is granted: p.mu.Lock(); defer p.mu.Unlock()
StopLock(p) ==
    /\ UNCHANGED <<cfgVars, reqVars>>
    /\ pc[p] = "idle"
    /\ LockFree(p)
    /\ mu' = p
    /\ pc' = [pc EXCEPT ![p] = "t_check"]
    /\ UNCHANGED <<tm, calls, started, serverSet, serversCreated, inShutdown, listening,
                   active, ctxDone, quit, errChan, serve, shutdownErrors,
                   ret, logs>>

\* if p.server == nil { return errors.ErrNotStarted() }
\* otherwise p.server.Shutdown(ctx) begins
StopCheck(p) ==
    /\ UNCHANGED <<cfgVars, reqVars>>
    /\ pc[p] = "t_check"
    /\ \/ /\ ~serverSet
          /\ ret' = [ret EXCEPT ![p] = "ErrNotStarted"]
          /\ mu' = Free
          /\ pc' = [pc EXCEPT ![p] = "done"]
          /\ UNCHANGED <<inShutdown, listening, calls>>
       \/ /\ serverSet
          /\ inShutdown' = TRUE
          /\ listening' = FALSE
          /\ calls' = [calls EXCEPT ![p] = Append(@, "server.Shutdown")]
          /\ pc' = [pc EXCEPT ![p] = "t_shutwait"]
          /\ UNCHANGED <<ret, mu>>
    /\ UNCHANGED <<tm, started, serverSet, serversCreated, active, ctxDone,
                   quit, errChan, serve, shutdownErrors, logs>>

\* p.server.Shutdown(ctx) returns: nil once no connection is active, or the
\* caller's context's error when that context is done first.
StopShutdownWait(p) ==
    /\ UNCHANGED <<cfgVars, reqVars>>
    /\ pc[p] = "t_shutwait"
    /\ \/ /\ active = 0
          /\ UNCHANGED <<shutdownErrors, logs>>
       \/ /\ active > 0
          /\ ctxDone[p]
          /\ logs' = [logs EXCEPT ![p] = @ \cup {"error during server shutdown"}]
          /\ shutdownErrors' = [shutdownErrors EXCEPT
                                  ![p] = Append(@, "server shutdown failed")]
    /\ pc' = [pc EXCEPT ![p] = "t_finish"]
    /\ UNCHANGED <<tm, calls, started, mu, serverSet, serversCreated, inShutdown,
                   listening, active, ctxDone, quit, errChan, serve, ret>>

\* A mutant that ends Stop with the listener's shutdown: the telemetry
\* manager is left alone.
StopFinishListenerOnly(p) ==
    /\ UNCHANGED <<cfgVars, reqVars>>
    /\ pc[p] = "t_finish"
    /\ ret' = [ret EXCEPT ![p] = FirstError(shutdownErrors[p])]
    /\ mu' = Free
    /\ pc' = [pc EXCEPT ![p] = "done"]
    /\ UNCHANGED <<tm, calls, started, serverSet, serversCreated, inShutdown,
                   listening, active, ctxDone, quit, errChan, serve,
                   shutdownErrors, logs>>

\* if p.telemetryManager != nil { p.telemetryManager.Shutdown(ctx) }
\* return shutdownErrors[0], or nil; the deferred p.mu.Unlock() runs
StopFinish(p) ==
    /\ UNCHANGED <<cfgVars, reqVars>>
    /\ pc[p] = "t_finish"
    /\ \E ok \in (IF tm THEN BOOLEAN ELSE {TRUE}) :
          LET errs == TelemetryErrors(shutdownErrors[p], ok) IN
          /\ shutdownErrors' = [shutdownErrors EXCEPT ![p] = errs]
          /\ ret' = [ret EXCEPT ![p] = FirstError(errs)]
          /\ logs' = [logs EXCEPT ![p] = @
                \cup (IF ~ok THEN {"error shutting down telemetry"} ELSE {})]
    /\ calls' = [calls EXCEPT ![p] = TelemetryShutdown(@, tm)]
    /\ mu' = Free
    /\ pc' = [pc EXCEPT ![p] = "done"]
    /\ UNCHANGED <<tm, started, serverSet, serversCreated, inShutdown, listening,
                   active, ctxDone, quit, errChan, serve>>

\* the caller has the value its call returned; its next call gets a new
\* context
Returned(p) ==
    /\ UNCHANGED <<cfgVars, reqVars>>
    /\ pc[p] = "done"
    /\ pc' = [pc EXCEPT ![p] = "idle"]
    /\ ret' = [ret EXCEPT ![p] = "none"]
    /\ ctxDone' = [ctxDone EXCEPT ![p] = FALSE]
    /\ shutdownErrors' = [shutdownErrors EXCEPT ![p] = <<>>]
    /\ logs' = [logs EXCEPT ![p] = {}]
    /\ calls' = [calls EXCEPT ![p] = <<>>]
    /\ UNCHANGED <<tm, started, mu, serverSet, serversCreated, inShutdown,
                   listening, active, quit, errChan, serve>>

\* ------------------------------------------------------------------------
\* The environment of the platform
\* ------------------------------------------------------------------------
\* The OS delivers SIGINT or SIGTERM: the runtime sends it, without blocking,
\* on every channel registered with signal.Notify.  A channel is read only
\* by the select of the Start call that made it, so a signal that arrives
\* when no Start call is in its select changes nothing.
Signal ==
    /\ UNCHANGED <<cfgVars, reqVars>>
    /\ \E p \in Callers : quit[p] = "empty" /\ pc[p] = "s_select"
    /\ quit' = [p \in Callers |-> IF quit[p] = "none" THEN "none" ELSE "full"]
    /\ UNCHANGED <<tm, calls, started, mu, serverSet, serversCreated, inShutdown,
                   listening, active, pc, ctxDone, errChan, serve,
                   shutdownErrors, ret, logs>>

\* The context a caller passed to Start or Stop is cancelled (or expires).
\* Start reads its context only in the select and Stop only while Shutdown
\* waits, so a cancellation at any other time changes nothing.
CancelCtx(p) ==
    /\ UNCHANGED <<cfgVars, reqVars>>
    /\ pc[p] \in {"s_select", "t_shutwait"}
    /\ ~ctxDone[p]
    /\ ctxDone' = [ctxDone EXCEPT ![p] = TRUE]
    /\ UNCHANGED <<tm, calls, started, mu, serverSet, serversCreated, inShutdown,
                   listening, active, pc, quit, errChan, serve,
                   shutdownErrors, ret, logs>>

\* the open listener accepts a connection
Accept ==
    /\ UNCHANGED <<cfgVars, reqVars>>
    /\ listening
    /\ active < MaxActive
    /\ active' = active + 1
    /\ UNCHANGED <<tm, calls, started, mu, serverSet, serversCreated, inShutdown,
                   listening, pc, ctxDone, quit, errChan, serve,
                   shutdownErrors, ret, logs>>

\* a connection finishes
ConnDone ==
    /\ UNCHANGED <<cfgVars, reqVars>>
    /\ active > 0
    /\ active' = active - 1
    /\ UNCHANGED <<tm, calls, started, mu, serverSet, serversCreated, inShutdown,
                   listening, pc, ctxDone, quit, errChan, serve,
                   shutdownErrors, ret, logs>>

NextLifecycle ==
    \/ \E p \in Callers : StartLock(p)
    \/ \E p \in Callers : StartCheck(p)
    \/ \E p \in Callers : StartServer(p)
    \/ \E p \in Callers : StartSelect(p)
    \/ \E p \in Callers : StartShutdown(p)
    \/ \E p \in Callers : StartShutdownWait(p)
    \/ \E p \in Callers : StartFinish(p)
    \/ \E p \in Callers : ServeListen(p)
    \/ \E p \in Callers : ServeExit(p)
    \/ \E p \in Callers : StopLock(p)
    \/ \E p \in Callers : StopCheck(p)
    \/ \E p \in Callers : StopShutdownWait(p)
    \/ \E p \in Callers : StopFinish(p)
    \/ \E p \in Callers : Returned(p)
    \/ \E p \in Callers : CancelCtx(p)
    \/ Signal
    \/ Accept
    \/ ConnDone

\* The steps of one Start call from its started check on.
StartStep(p) ==
    \/ StartCheck(p) \/ StartServer(p) \/ StartSelect(p)
    \/ StartShutdown(p) \/ StartShutdownWait(p) \/ StartFinish(p)

SpecLifecycle == InitLifecycle /\ [][NextLifecycle]_vars

\* The Go scheduler runs every runnable goroutine: each step of a Start call
\* that holds or has passed the lock is taken once it stays enabled.  Calls,
\* signals, context cancellation and connections are the environment's
\* choice.
FairLifecycle == \A p \in Callers : WF_vars(StartStep(p))

SpecLifecycleFair == InitLifecycle /\ [][NextLifecycle]_vars /\ FairLifecycle

\* ------------------------------------------------------------------------
\* Error values                                     (errors/errors.go)
\* ------------------------------------------------------------------------
\* An error value: its dynamic type (kind), its Error() text (msg), the
\* status an ExternalServiceError carries, the failures of a
\* validator.ValidationErrors and, for an error that wraps others
\* (fmt.Errorf with %w, errors.Join), the kinds in its chain.
NewError(kind, msg) ==
    [kind |-> kind, msg |-> msg, status |-> 0, failures |-> <<>>,
     wraps |-> {}]

NewNotFoundError(msg) == NewError("NotFoundError", msg)
NewUnauthorizedError(msg) == NewError("UnauthorizedError", msg)
NewConflictError(msg) == NewError("ConflictError", msg)
NewBadRequestError(msg) == NewError("BadRequestError", msg)
NewExternalServiceError(msg, status) ==
    [NewError("ExternalServiceError", msg) EXCEPT !.status = status]
NewForbiddenError(msg) == NewError("ForbiddenError", msg)
NewUnprocessableEntityError(msg) == NewError("UnprocessableEntityError", msg)
NewTooManyRequestsError(msg) == NewError("TooManyRequestsError", msg)
NewInternalServerError(msg) == NewError("InternalServerError", msg)
NewServiceUnavailableError(msg) == NewError("ServiceUnavailableError", msg)

\* The root package re-exports errors.NewDomainError and the README lists a
\* DomainError kind; a value of that kind is a value of a type of its own.
NewDomainError(msg) == NewError("DomainError", msg)

\* sentinels of the standard library
Canceled == NewError("Canceled", "context canceled")
DeadlineExceeded == NewError("DeadlineExceeded", "context deadline exceeded")
EOF == NewError("EOF", "EOF")
ErrUnexpectedEOF == NewError("ErrUnexpectedEOF", "unexpected EOF")

\* errors of the JSON decoder and of the validator
UnmarshalTypeError == NewError("UnmarshalTypeError", "json: cannot unmarshal")
SyntaxError == NewError("SyntaxError", "invalid character")
ValidationErrors(fieldErrs) ==
    [NewError("ValidationErrors", "validation failed") EXCEPT
        !.failures = fieldErrs]

\* errors.New("boom"): an error of no kind the handler knows
ErrorString == NewError("errorString", "boom")

\* fmt.Errorf("wrapped: %w", e)
Wrap(e) ==
    [kind |-> "wrapError", msg |-> "wrapped: " \o e.msg, status |-> 0,
     failures |-> <<>>, wraps |-> {e.kind} \cup e.wraps]

\* errors.Join(a, b)
Join(a, b) ==
    [kind |-> "joinError", msg |-> a.msg \o "\n" \o b.msg, status |-> 0,
     failures |-> <<>>, wraps |-> {a.kind, b.kind} \cup a.wraps \cup b.wraps]

\* errors.Is(err, target) for a sentinel target
Is(err, target) == err.kind = target.kind \/ target.kind \in err.wraps

\* ------------------------------------------------------------------------
\* ApiError and the classifier              (middleware/error_handler.go)
\* ------------------------------------------------------------------------
\* http.StatusText
StatusText(status) ==
    CASE status = 200 -> "OK"
      [] status = 400 -> "Bad Request"
      [] status = 401 -> "Unauthorized"
      [] status = 403 -> "Forbidden"
      [] status = 404 -> "Not Found"
      [] status = 408 -> "Request Timeout"
      [] status = 409 -> "Conflict"
      [] status = 422 -> "Unprocessable Entity"
      [] status = 429 -> "Too Many Requests"
      [] status = 500 -> "Internal Server Error"
      [] status = 502 -> "Bad Gateway"
      [] status = 503 -> "Service Unavailable"
      [] OTHER -> ""

\* A JSON value of a response body's cause: an object {field, reason} or an
\* array of values.
Object(field, reason) ==
    [type |-> "object", field |-> field, reason |-> reason, items |-> <<>>]
Array(items) ==
    [type |-> "array", field |-> "", reason |-> "", items |-> items]

\* cause is the []any of the variadic arguments, one element per argument
NewApiError(message, status, cause) ==
    [Message |-> message, Error |-> StatusText(status), Status |-> status,
     Cause |-> cause]

newValidationError(field, reason) == Object(field, reason)

\* one field failure of the validator
FieldError(field, tag, param) == [Field |-> field, ActualTag |-> tag, Param |-> param]

descriptiveValidationErrors(validationErrs) ==
    [i \in 1..Len(validationErrs) |->
        LET fieldErr == validationErrs[i]
            tagName == IF fieldErr.Param # ""
                       THEN fieldErr.ActualTag \o "=" \o fieldErr.Param
                       ELSE fieldErr.ActualTag
        IN newValidationError(fieldErr.Field, tagName)]

\* A mutant that tests for the unexpected end of input first.
DefaultBucketUnexpectedFirst(err) ==
    IF Is(err, ErrUnexpectedEOF)
    THEN [errorType |-> "IncompleteBody",
          apiErr |-> NewApiError("Request body is incomplete", 400, <<>>)]
    ELSE IF Is(err, EOF)
    THEN [errorType |-> "EmptyBody",
          apiErr |-> NewApiError("Request body is empty", 400, <<>>)]
    ELSE IF err = Canceled
    THEN [errorType |-> "RequestCanceled",
          apiErr |-> NewApiError("Request was cancelled by client", 499, <<>>)]
    ELSE IF err = DeadlineExceeded
    THEN [errorType |-> "RequestTimeout",
          apiErr |-> NewApiError("Request timeout exceeded", 408, <<>>)]
    ELSE [errorType |-> "UnknownError",
          apiErr |-> NewApiError("An error occurred", 500, <<>>)]

\* The default branch of the type switch: errors.Is for the two end-of-input
\* sentinels, == for the two context sentinels, then the unknown error.
\* A mutant that matches the cancellation and deadline sentinels through the
\* wrap chain as well.
DefaultBucketIsAll(err) ==
    IF Is(err, EOF)
    THEN [errorType |-> "EmptyBody",
          apiErr |-> NewApiError("Request body is empty", 400, <<>>)]
    ELSE IF Is(err, ErrUnexpectedEOF)
    THEN [errorType |-> "IncompleteBody",
          apiErr |-> NewApiError("Request body is incomplete", 400, <<>>)]
    ELSE IF Is(err, Canceled)
    THEN [errorType |-> "RequestCanceled",
          apiErr |-> NewApiError("Request was cancelled by client", 499, <<>>)]
    ELSE IF Is(err, DeadlineExceeded)
    THEN [errorType |-> "RequestTimeout",
          apiErr |-> NewApiError("Request timeout exceeded", 408, <<>>)]
    ELSE [errorType |-> "UnknownError",
          apiErr |-> NewApiError("An error occurred", 500, <<>>)]

DefaultBucket(err) ==
    IF Is(err, EOF)
    THEN [errorType |-> "EmptyBody",
          apiErr |-> NewApiError("Request body is empty", 400, <<>>)]
    ELSE IF Is(err, ErrUnexpectedEOF)
    THEN [errorType |-> "IncompleteBody",
          apiErr |-> NewApiError("Request body is incomplete", 400, <<>>)]
    ELSE IF err = Canceled
    THEN [errorType |-> "RequestCanceled",
          apiErr |-> NewApiError("Request was cancelled by client", 499, <<>>)]
    ELSE IF err = DeadlineExceeded
    THEN [errorType |-> "RequestTimeout",
          apiErr |-> NewApiError("Request timeout exceeded", 408, <<>>)]
    ELSE [errorType |-> "UnknownError",
          apiErr |-> NewApiError("An error occurred", 500, <<>>)]

\* The type switch and the default bucket of handleBasicError: the error
\* type it logs and the ApiError it sends.
Classify(err) ==
    CASE err.kind = "NotFoundError" ->
            [errorType |-> "NotFoundError", apiErr |-> NewApiError(err.msg, 404, <<>>)]
      [] err.kind = "UnauthorizedError" ->
            [errorType |-> "UnauthorizedError", apiErr |-> NewApiError(err.msg, 401, <<>>)]
      [] err.kind = "ConflictError" ->
            [errorType |-> "ConflictError", apiErr |-> NewApiError(err.msg, 409, <<>>)]
      [] err.kind = "ExternalServiceError" ->
            [errorType |-> "ExternalServiceError",
             apiErr |-> NewApiError(err.msg, err.status, <<>>)]
      [] err.kind = "BadRequestError" ->
            [errorType |-> "BadRequestError", apiErr |-> NewApiError(err.msg, 400, <<>>)]
      [] err.kind = "ForbiddenError" ->
            [errorType |-> "ForbiddenError", apiErr |-> NewApiError(err.msg, 403, <<>>)]
      [] err.kind = "UnprocessableEntityError" ->
            [errorType |-> "UnprocessableEntityError",
             apiErr |-> NewApiError(err.msg, 422, <<>>)]
      [] err.kind = "TooManyRequestsError" ->
            [errorType |-> "TooManyRequestsError",
             apiErr |-> NewApiError(err.msg, 429, <<>>)]
      [] err.kind = "InternalServerError" ->
            [errorType |-> "InternalServerError",
             apiErr |-> NewApiError(err.msg, 500, <<>>)]
      [] err.kind = "ServiceUnavailableError" ->
            [errorType |-> "ServiceUnavailableError",
             apiErr |-> NewApiError(err.msg, 503, <<>>)]
      [] err.kind = "UnmarshalTypeError" ->
            [errorType |-> "UnmarshalTypeError",
             apiErr |-> NewApiError("Invalid type for field", 400, <<>>)]
      [] err.kind = "ValidationErrors" ->
            LET validationErrs == descriptiveValidationErrors(err.failures)
            IN [errorType |-> "ValidationError",
                apiErr |-> NewApiError("Validation error", 400,
                                       <<Array(validationErrs)>>)]
      [] err.kind = "SyntaxError" ->
            [errorType |-> "JSONSyntaxError",
             apiErr |-> NewApiError("Invalid JSON syntax at position", 400, <<>>)]
      [] OTHER -> DefaultBucket(err)

\* ------------------------------------------------------------------------
\* gin.Context
\* ------------------------------------------------------------------------
\* the value stored under TraceIDKey
NoKey == [exists |-> FALSE, type |-> "none", val |-> ""]
StringKey(v) == [exists |-> TRUE, type |-> "string", val |-> v]
IntKey == [exists |-> TRUE, type |-> "int", val |-> "42"]

\* The context of a request the engine has just received: no handler run,
\* nothing stored, nothing written, writer status 200.
NewContext ==
    [index |-> 0, ran |-> <<>>, keys |-> NoKey, header |-> "",
     contentType |-> "", errors |-> <<>>, aborted |-> FALSE,
     status |-> 200, written |-> FALSE, bodies |-> <<>>,
     classified |-> <<>>]

\* the engine invokes the next handler of the chain
Entered(cc, name) == [cc EXCEPT !.index = @ + 1, !.ran = Append(@, name)]

\* c.JSON(code, obj): the status is taken unless the header is already
\* written; the body is written after what was written before.
WriteJSON(cc, code, obj) ==
    [cc EXCEPT !.status = IF cc.written THEN @ ELSE code,
               !.written = TRUE,
               !.bodies = Append(@, obj)]

\* ctx.Header("Content-Type", ...); ctx.AbortWithStatusJSON(code, obj)
AbortWithStatusJSON(cc, code, obj) ==
    WriteJSON([cc EXCEPT !.aborted = TRUE,
                         !.contentType = "application/json; charset=utf-8"],
              code, obj)

\* GetTraceID                                       (middleware, trace id)
GetTraceID(cc) ==
    IF cc.keys.exists
    THEN IF cc.keys.type = "string" THEN cc.keys.val ELSE ""
    ELSE ""

\* the identifier TraceID uses: the inbound header, or a fresh UUID when
\* the header is absent or empty.  A mutant that always generates one.
TraceIDAlwaysFresh(inbound, fresh) == fresh

TraceIDValue(inbound, fresh) == IF inbound = "" THEN fresh ELSE inbound

\* an entry sent to the logger
LogEntry(level, msg, status, errorType, traceID) ==
    [level |-> level, msg |-> msg, status |-> status,
     error_type |-> errorType, trace_id |-> traceID]

\* handleBasicError: classify, log by severity, send the response.
\* The result is the context and the log after the call.
handleBasicError(cc, err, lg) ==
    LET r == Classify(err)
        entry == IF r.apiErr.Status >= 500
                 THEN LogEntry("error", "Server error", r.apiErr.Status,
                               r.errorType, GetTraceID(cc))
                 ELSE LogEntry("warn", "Client error", r.apiErr.Status,
                               r.errorType, GetTraceID(cc))
        noted == [cc EXCEPT !.classified =
                     Append(@, [err |-> err, errorType |-> r.errorType,
                                apiErr |-> r.apiErr])]
    IN [ctx |-> AbortWithStatusJSON(noted, r.apiErr.Status, r.apiErr),
        lg |-> Append(lg, entry)]

\* a panic value: an error value, or anything else (shown by its text)
PanicError(e) == [isError |-> TRUE, err |-> e, text |-> e.msg]
PanicOther(text) == [isError |-> FALSE, err |-> NewError("none", ""), text |-> text]
NoPanic == PanicOther("")

\* A mutant whose response to a non-error panic carries the panic value.
handlePanicEcho(cc, pv, lg) ==
    IF pv.isError
    THEN handleBasicError(cc, pv.err,
             Append(lg, LogEntry("error", "Panic recovered", 0, "",
                                 GetTraceID(cc))))
    ELSE [ctx |-> AbortWithStatusJSON(cc, 500,
                      NewApiError("Internal server error panic: " \o pv.text,
                                  500, <<>>)),
          lg |-> Append(lg, LogEntry("error", "Panic recovered (non-error type)",
                                     0, "", GetTraceID(cc)))]

\* handlePanic: an error value goes through handleBasicError, any other
\* value gets the fixed 500 response.
handlePanic(cc, pv, lg) ==
    IF pv.isError
    THEN handleBasicError(cc, pv.err,
             Append(lg, LogEntry("error", "Panic recovered", 0, "",
                                 GetTraceID(cc))))
    ELSE [ctx |-> AbortWithStatusJSON(cc, 500,
                      NewApiError("Internal server error panic", 500, <<>>)),
          lg |-> Append(lg, LogEntry("error", "Panic recovered (non-error type)",
                                     0, "", GetTraceID(cc)))]

\* ------------------------------------------------------------------------
\* The requests of the model
\* ------------------------------------------------------------------------
MaxErrs == 2

Headers == {"", "abc-123"}
UUIDs == {"3f2a9c1e-0000-4000-8000-000000000001",
          "7b1d4e2a-0000-4000-8000-000000000002"}

TwoFailures == <<FieldError("Email", "required", ""), FieldError("Age", "min", "18")>>
OneFailure == <<FieldError("Email", "required", "")>>

TypedErrors ==
    { NewNotFoundError("user not found"),
      NewUnauthorizedError("token expired"),
      NewForbiddenError("not allowed"),
      NewConflictError("already exists"),
      NewBadRequestError("bad input"),
      NewDomainError("Business rule violated"),
      NewUnprocessableEntityError("cannot process"),
      NewTooManyRequestsError("slow down"),
      NewInternalServerError("db down"),
      NewServiceUnavailableError("maintenance"),
      NewExternalServiceError("payment gateway failed", 502),
      NewExternalServiceError("upstream throttled", 429) }

OtherErrors ==
    { UnmarshalTypeError, SyntaxError,
      ValidationErrors(TwoFailures), ValidationErrors(OneFailure),
      EOF, ErrUnexpectedEOF, Canceled, DeadlineExceeded,
      Wrap(EOF), Wrap(ErrUnexpectedEOF), Wrap(Canceled),
      Wrap(DeadlineExceeded), Wrap(NewNotFoundError("user not found")),
      Join(ErrUnexpectedEOF, EOF), Join(Canceled, ErrUnexpectedEOF),
      ErrorString }

Errs == TypedErrors \cup OtherErrors

\* the errors a handler attaches after its first one
LaterErrs == { NewNotFoundError("user not found"), ErrorString }

RECURSIVE ErrorListsOfLen(_)
ErrorListsOfLen(n) ==
    IF n = 1 THEN { <<e>> : e \in Errs }
    ELSE { Append(l, e) : l \in ErrorListsOfLen(n - 1), e \in LaterErrs }

ErrorLists == UNION { ErrorListsOfLen(n) : n \in 1..MaxErrs }

\* What the route handler does: answer 200, store a non-string under the
\* trace-id key and answer 200, attach errors with c.Error and return, or
\* panic.
Behaviour(do, errs, pv) == [do |-> do, errs |-> errs, pv |-> pv]

Behaviours ==
    { Behaviour("ok", <<>>, NoPanic), Behaviour("setkey", <<>>, NoPanic) }
    \cup { Behaviour("error", l, NoPanic) : l \in ErrorLists }
    \cup { Behaviour("panic", <<>>, PanicError(e)) : e \in Errs }
    \cup { Behaviour("panic", <<>>, PanicOther(t)) : t \in {"boom", "42"} }

\* the configs a router is built from: a logger and any choice of toggles
RouterConfigs ==
    { [DefaultConfig EXCEPT !.Logger = TheLogger,
                            !.EnableTraceID = a,
                            !.EnableContextCancellation = b,
                            !.EnableCORS = d,
                            !.EnableTelemetry = e,
                            !.EnableLogger = g,
                            !.EnableRecovery = r] :
        a \in BOOLEAN, b \in BOOLEAN, d \in BOOLEAN, e \in BOOLEAN,
        g \in BOOLEAN, r \in BOOLEAN }

\* router.GET(path, handler) or router.GET(path, WithTimeout(d), handler)
Route(timeout) ==
    IF timeout THEN <<"WithTimeout", "Handler">> ELSE <<"Handler">>

\* the behaviours tried with every config: one of each sort
CoreBehaviours ==
    { Behaviour("ok", <<>>, NoPanic), Behaviour("setkey", <<>>, NoPanic),
      Behaviour("error", <<NewNotFoundError("user not found")>>, NoPanic),
      Behaviour("panic", <<>>, PanicError(ErrorString)),
      Behaviour("panic", <<>>, PanicOther("boom")) }

Request(h, k, t, b) ==
    [header |-> h, config |-> k,
     handlers |-> NewGinRouter(k).chain \o Route(t),
     behaviour |-> b]

\* Every behaviour is tried under every choice of the trace-id,
\* context-cancellation and logger toggles; the CORS and telemetry
\* middleware, which pass every request of the model on, and the recovery
\* toggle, which the router does not read, are toggled under the core
\* behaviours.
Requests ==
    { Request(h, k, t, b) :
        h \in Headers, k \in RouterConfigs, t \in BOOLEAN,
        b \in CoreBehaviours }
    \cup
    { Request(h, k, t, b) :
        h \in Headers,
        k \in { r \in RouterConfigs :
                  r.EnableCORS /\ ~r.EnableTelemetry /\ r.EnableRecovery },
        t \in BOOLEAN, b \in Behaviours }

HandlerBody == NewApiError("ok", 200, <<>>)

\* the body of the route handler, but for a panic
HandlerEffect(cc, b) ==
    CASE b.do = "ok" -> WriteJSON(cc, 200, HandlerBody)
      [] b.do = "setkey" -> WriteJSON([cc EXCEPT !.keys = IntKey], 200, HandlerBody)
      [] b.do = "error" -> [cc EXCEPT !.errors = @ \o b.errs]
      [] OTHER -> cc

\* ctx.Err() of the context WithTimeout derived
CtxErr(t) == IF t = "DeadlineExceeded" THEN DeadlineExceeded ELSE Canceled

\* ------------------------------------------------------------------------
\* One request through the chain
\* ------------------------------------------------------------------------
InitRequest ==
    /\ cfg = DefaultConfig
    /\ opts = <<>>
    /\ edits = 0
    /\ newResult = NotCalled
    /\ LifeIdle
    /\ rq \in Requests
    /\ ginCtx = NewContext
    /\ stack = <<>>
    /\ phase = "down"
    /\ panicValue = NoPanic
    /\ worker = "none"
    /\ reqCtx = "nil"
    /\ timer = "none"
    /\ rlogs = <<>>

\* the serving goroutine is about to invoke the handler called name
AtHandler(name) ==
    /\ phase = "down"
    /\ ginCtx.index + 1 <= Len(rq.handlers)
    /\ rq.handlers[ginCtx.index + 1] = name

\* the innermost middleware whose c.Next() is returning
Top == stack[Len(stack)]
Pop == SubSeq(stack, 1, Len(stack) - 1)

\* TraceID: read the header, store the id, set the response header, c.Next()
TraceID ==
    /\ UNCHANGED <<cfgVars, lifeVars>>
    /\ AtHandler("TraceID")
    /\ \E fresh \in UUIDs :
          LET traceID == TraceIDValue(rq.header, fresh)
          IN ginCtx' = [Entered(ginCtx, "TraceID") EXCEPT
                           !.keys = StringKey(traceID),
                           !.header = traceID]
    /\ stack' = Append(stack, "TraceID")
    /\ UNCHANGED <<rq, phase, panicValue, worker, reqCtx, timer, rlogs>>

\* ErrorHandler: defer the recovery, c.Next()
ErrorHandler ==
    /\ UNCHANGED <<cfgVars, lifeVars>>
    /\ AtHandler("ErrorHandler")
    /\ ginCtx' = Entered(ginCtx, "ErrorHandler")
    /\ stack' = Append(stack, "ErrorHandler")
    /\ UNCHANGED <<rq, phase, panicValue, worker, reqCtx, timer, rlogs>>

\* A mutant that handles the last error.
ErrorHandlerAfterNextLast ==
    /\ UNCHANGED <<cfgVars, lifeVars>>
    /\ phase = "up"
    /\ stack # <<>> /\ Top = "ErrorHandler"
    /\ IF Len(ginCtx.errors) > 0
       THEN LET r == handleBasicError(ginCtx,
                                      ginCtx.errors[Len(ginCtx.errors)], rlogs)
            IN ginCtx' = r.ctx /\ rlogs' = r.lg
       ELSE UNCHANGED <<ginCtx, rlogs>>
    /\ stack' = Pop
    /\ UNCHANGED <<rq, phase, panicValue, worker, reqCtx, timer>>

\* ErrorHandler after c.Next() returned: handle the first error, if any
ErrorHandlerAfterNext ==
    /\ UNCHANGED <<cfgVars, lifeVars>>
    /\ phase = "up"
    /\ stack # <<>> /\ Top = "ErrorHandler"
    /\ IF Len(ginCtx.errors) > 0
       THEN LET r == handleBasicError(ginCtx, ginCtx.errors[1], rlogs)
            IN ginCtx' = r.ctx /\ rlogs' = r.lg
       ELSE UNCHANGED <<ginCtx, rlogs>>
    /\ stack' = Pop
    /\ UNCHANGED <<rq, phase, panicValue, worker, reqCtx, timer>>

\* ErrorHandler's deferred function recovers a panic of its own goroutine
ErrorHandlerRecover ==
    /\ UNCHANGED <<cfgVars, lifeVars>>
    /\ phase = "panic"
    /\ stack # <<>> /\ Top = "ErrorHandler"
    /\ LET r == handlePanic(ginCtx, panicValue, rlogs)
       IN ginCtx' = r.ctx /\ rlogs' = r.lg
    /\ stack' = Pop
    /\ phase' = "up"
    /\ panicValue' = NoPanic
    /\ UNCHANGED <<rq, worker, reqCtx, timer>>

\* A mutant whose request logger writes its entry in a deferred function, so
\* that an unwinding panic writes it too.
UnwindDeferredLog ==
    /\ UNCHANGED <<cfgVars, lifeVars>>
    /\ phase = "panic"
    /\ stack # <<>> /\ Top # "ErrorHandler"
    /\ stack' = Pop
    /\ rlogs' = IF Top = "BasicLogger"
                THEN Append(rlogs, LogEntry("info", "Request completed",
                                            ginCtx.status, "",
                                            GetTraceID(ginCtx)))
                ELSE rlogs
    /\ UNCHANGED <<rq, ginCtx, phase, panicValue, worker, reqCtx, timer>>

\* a panic unwinds through a middleware that does not recover: the code
\* after its c.Next() does not run
Unwind ==
    /\ UNCHANGED <<cfgVars, lifeVars>>
    /\ phase = "panic"
    /\ stack # <<>> /\ Top # "ErrorHandler"
    /\ stack' = Pop
    /\ UNCHANGED <<rq, ginCtx, phase, panicValue, worker, reqCtx, timer, rlogs>>

\* A mutant that records the context's error and goes on down the chain.
ContextCancellationNoAbort ==
    /\ UNCHANGED <<cfgVars, lifeVars>>
    /\ AtHandler("ContextCancellation")
    /\ ginCtx' = [Entered(ginCtx, "ContextCancellation") EXCEPT
                     !.errors = IF reqCtx # "nil"
                                THEN Append(@, CtxErr(reqCtx)) ELSE @]
    /\ stack' = Append(stack, "ContextCancellation")
    /\ UNCHANGED <<rq, phase, panicValue, worker, reqCtx, timer, rlogs>>

\* ContextCancellation: a context already done ends the chain here
ContextCancellation ==
    /\ UNCHANGED <<cfgVars, lifeVars>>
    /\ AtHandler("ContextCancellation")
    /\ IF reqCtx # "nil"
       THEN /\ ginCtx' = [Entered(ginCtx, "ContextCancellation") EXCEPT
                             !.errors = Append(@, CtxErr(reqCtx)),
                             !.aborted = TRUE]
            /\ phase' = "up"
            /\ UNCHANGED stack
       ELSE /\ ginCtx' = Entered(ginCtx, "ContextCancellation")
            /\ stack' = Append(stack, "ContextCancellation")
            /\ UNCHANGED phase
    /\ UNCHANGED <<rq, panicValue, worker, reqCtx, timer, rlogs>>

\* the CORS middleware on a request: it answers nothing of its own here and
\* the chain goes on
CORSHandler ==
    /\ UNCHANGED <<cfgVars, lifeVars>>
    /\ AtHandler("CORS")
    /\ ginCtx' = Entered(ginCtx, "CORS")
    /\ UNCHANGED <<rq, stack, phase, panicValue, worker, reqCtx, timer, rlogs>>

\* the telemetry middleware: a span around c.Next()
Telemetry ==
    /\ UNCHANGED <<cfgVars, lifeVars>>
    /\ AtHandler("Telemetry")
    /\ ginCtx' = Entered(ginCtx, "Telemetry")
    /\ stack' = Append(stack, "Telemetry")
    /\ UNCHANGED <<rq, phase, panicValue, worker, reqCtx, timer, rlogs>>

\* BasicLogger: note the start, c.Next()
BasicLogger ==
    /\ UNCHANGED <<cfgVars, lifeVars>>
    /\ AtHandler("BasicLogger")
    /\ ginCtx' = Entered(ginCtx, "BasicLogger")
    /\ stack' = Append(stack, "BasicLogger")
    /\ UNCHANGED <<rq, phase, panicValue, worker, reqCtx, timer, rlogs>>

\* BasicLogger after c.Next() returned: one entry, its level chosen by
\* c.Writer.Status()
BasicLoggerAfterNext ==
    /\ UNCHANGED <<cfgVars, lifeVars>>
    /\ phase = "up"
    /\ stack # <<>> /\ Top = "BasicLogger"
    /\ LET status == ginCtx.status
       IN rlogs' = Append(rlogs,
              IF status >= 500
              THEN LogEntry("error", "Request completed with server error",
                            status, "", GetTraceID(ginCtx))
              ELSE IF status >= 400
              THEN LogEntry("warn", "Request completed with client error",
                            status, "", GetTraceID(ginCtx))
              ELSE LogEntry("info", "Request completed", status, "",
                            GetTraceID(ginCtx)))
    /\ stack' = Pop
    /\ UNCHANGED <<rq, ginCtx, phase, panicValue, worker, reqCtx, timer>>

\* a middleware with nothing to do after c.Next() returns
MiddlewareReturn ==
    /\ UNCHANGED <<cfgVars, lifeVars>>
    /\ phase = "up"
    /\ stack # <<>> /\ Top \in {"TraceID", "ContextCancellation", "Telemetry"}
    /\ stack' = Pop
    /\ UNCHANGED <<rq, ginCtx, phase, panicValue, worker, reqCtx, timer, rlogs>>

\* the route handler, run by the serving goroutine
RouteHandler ==
    /\ UNCHANGED <<cfgVars, lifeVars>>
    /\ AtHandler("Handler")
    /\ ginCtx' = HandlerEffect(Entered(ginCtx, "Handler"), rq.behaviour)
    /\ IF rq.behaviour.do = "panic"
       THEN phase' = "panic" /\ panicValue' = rq.behaviour.pv
       ELSE phase' = "up" /\ UNCHANGED panicValue
    /\ UNCHANGED <<rq, stack, worker, reqCtx, timer, rlogs>>

\* WithTimeout: derive the context, start the goroutine that runs c.Next(),
\* wait in the select
WithTimeout ==
    /\ UNCHANGED <<cfgVars, lifeVars>>
    /\ AtHandler("WithTimeout")
    /\ ginCtx' = Entered(ginCtx, "WithTimeout")
    /\ timer' = IF reqCtx = "nil" THEN "running" ELSE reqCtx
    /\ worker' = "spawned"
    /\ phase' = "wait"
    /\ UNCHANGED <<rq, stack, panicValue, reqCtx, rlogs>>

\* WithTimeout's select: the goroutine closed done, or the context is done;
\* the deferred cancel() runs on return
WithTimeoutSelect ==
    /\ UNCHANGED <<cfgVars, lifeVars>>
    /\ phase = "wait"
    /\ \/ /\ worker = "done"
          /\ UNCHANGED ginCtx
       \/ /\ timer \in {"Canceled", "DeadlineExceeded"}
          /\ ginCtx' = [ginCtx EXCEPT !.errors = Append(@, CtxErr(timer)),
                                      !.aborted = TRUE]
    /\ phase' = "up"
    /\ timer' = IF timer = "running" THEN "Canceled" ELSE timer
    /\ UNCHANGED <<rq, stack, panicValue, worker, reqCtx, rlogs>>

\* the spawned goroutine calls c.Next(): the route handler is next unless
\* the chain was aborted meanwhile
WorkerNext ==
    /\ UNCHANGED <<cfgVars, lifeVars>>
    /\ phase # "crashed"
    /\ worker = "spawned"
    /\ worker' = IF ginCtx.aborted THEN "done" ELSE "handler"
    /\ UNCHANGED <<rq, ginCtx, stack, phase, panicValue, reqCtx, timer, rlogs>>

\* The route handler, run by the spawned goroutine, at any moment from the
\* select on.  No function of that goroutine recovers: a panic ends the
\* process.
WorkerHandler ==
    /\ UNCHANGED <<cfgVars, lifeVars>>
    /\ phase # "crashed"
    /\ worker = "handler"
    /\ ginCtx' = HandlerEffect(Entered(ginCtx, "Handler"), rq.behaviour)
    /\ IF rq.behaviour.do = "panic"
       THEN /\ worker' = "panicked"
            /\ phase' = "crashed"
            /\ panicValue' = rq.behaviour.pv
       ELSE /\ worker' = "done"
            /\ UNCHANGED <<phase, panicValue>>
    /\ UNCHANGED <<rq, stack, reqCtx, timer, rlogs>>

\* the engine, after the chain returned: the header is written if no
\* handler wrote it
ServeDone ==
    /\ UNCHANGED <<cfgVars, lifeVars>>
    /\ phase = "up"
    /\ stack = <<>>
    /\ ginCtx' = [ginCtx EXCEPT !.written = TRUE]
    /\ phase' = "finished"
    /\ UNCHANGED <<rq, stack, panicValue, worker, reqCtx, timer, rlogs>>

\* The client goes away: the request context is cancelled, and with it the
\* context WithTimeout derived from it.  The context is read by
\* ContextCancellation, by WithTimeout and by its select: a cancellation at
\* another moment is seen as one just before the next of these.
ClientDisconnect ==
    /\ UNCHANGED <<cfgVars, lifeVars>>
    /\ \/ AtHandler("ContextCancellation")
       \/ AtHandler("WithTimeout")
       \/ phase = "wait"
    /\ reqCtx = "nil"
    /\ reqCtx' = "Canceled"
    /\ timer' = IF timer = "running" THEN "Canceled" ELSE timer
    /\ UNCHANGED <<rq, ginCtx, stack, phase, panicValue, worker, rlogs>>

\* the deadline of WithTimeout passes
TimerFire ==
    /\ UNCHANGED <<cfgVars, lifeVars>>
    /\ timer = "running"
    /\ timer' = "DeadlineExceeded"
    /\ UNCHANGED <<rq, ginCtx, stack, phase, panicValue, worker, reqCtx, rlogs>>

NextRequest ==
    \/ TraceID
    \/ ErrorHandler
    \/ ErrorHandlerAfterNext
    \/ ErrorHandlerRecover
    \/ Unwind
    \/ ContextCancellation
    \/ CORSHandler
    \/ Telemetry
    \/ BasicLogger
    \/ BasicLoggerAfterNext
    \/ MiddlewareReturn
    \/ RouteHandler
    \/ WithTimeout
    \/ WithTimeoutSelect
    \/ WorkerNext
    \/ WorkerHandler
    \/ ServeDone
    \/ ClientDisconnect
    \/ TimerFire

SpecRequest == InitRequest /\ [][NextRequest]_vars

\* ------------------------------------------------------------------------
\* Claims about configuration and construction
\* ------------------------------------------------------------------------
\* C3: New(DefaultConfig(), WithPort(8080), WithLogger(logger)) with a
\* non-nil logger returns a platform and a nil error.
C3_QuickStartSucceeds ==
    (newResult.called /\ cfg = DefaultConfig
        /\ opts = <<WithPort(8080), WithLogger(TheLogger)>>)
    => (newResult.err = NoError /\ newResult.platform.exists)

\* the five rules the configuration is documented to obey
LoggerRule(c) == c.Logger # NoLogger
PortRule(c) == c.Port >= 1 /\ c.Port <= 65535
ModeRule(c) == c.Mode \in {"debug", "release", "test"}
TimeoutRule(c) == c.ReadTimeout > 0 /\ c.WriteTimeout > 0 /\ c.IdleTimeout > 0
WildcardRule(c) == c.AllowedOrigins = Wildcard => c.AllowCredentials = FALSE

FiveRules(c) ==
    LoggerRule(c) /\ PortRule(c) /\ ModeRule(c) /\ TimeoutRule(c) /\ WildcardRule(c)

\* C4: Validate returns an error exactly when one of the five rules is
\* broken, so the config of every constructed platform obeys all five.
C4_ValidateFiveRules ==
    /\ (Validate(cfg) = NoError) <=> FiveRules(cfg)
    /\ (newResult.called /\ newResult.platform.exists)
          => FiveRules(newResult.platform.config)

\* C5: DefaultConfig() is port 8080, debug, 30s/30s/60s, 1 MiB of headers,
\* the wildcard origin with credentials disabled, every toggle on but
\* telemetry.
C5_DocumentedDefaults ==
    edits = 0 =>
        /\ cfg.Port = 8080
        /\ cfg.Mode = "debug"
        /\ cfg.ReadTimeout = 30 /\ cfg.WriteTimeout = 30 /\ cfg.IdleTimeout = 60
        /\ cfg.MaxHeaderBytes = 1024 * 1024
        /\ cfg.AllowedOrigins = Wildcard
        /\ cfg.AllowCredentials = FALSE
        /\ cfg.EnableTraceID /\ cfg.EnableCORS /\ cfg.EnableRecovery
        /\ cfg.EnableLogger
        /\ ~cfg.EnableTelemetry

\* C8: the CORS policy of a constructed platform has credentials off when
\* the configured origin list is exactly ["*"], whatever the configured
\* credentials flag, and has the configured flag for any other list.
C8_WildcardDropsCredentials ==
    (newResult.called /\ newResult.platform.exists
        /\ newResult.platform.config.EnableCORS)
    => LET c == newResult.platform.config
           policy == newResult.platform.router.cors
       IN /\ c.AllowedOrigins = Wildcard => policy.AllowCredentials = FALSE
          /\ c.AllowedOrigins # Wildcard
                => policy.AllowCredentials = c.AllowCredentials

\* C8 witness: the caller asked for credentials with the wildcard origin
\* and the platform's policy has them off.
C8_Witness ==
    /\ newResult.called /\ newResult.platform.exists
    /\ newResult.platform.config.EnableCORS
    /\ \E i \in 1..Len(opts) : opts[i] = WithAllowCredentials(TRUE)
    /\ newResult.platform.config.AllowedOrigins = Wildcard
    /\ newResult.platform.config.AllowCredentials = TRUE
    /\ newResult.platform.router.cors.AllowCredentials = FALSE

\* New has returned a platform whose telemetry failed to initialise
TelemetryInitFailed ==
    /\ newResult.called
    /\ newResult.platform.exists
    /\ newResult.platform.config.EnableTelemetry
    /\ "failed to initialize telemetry" \in newResult.logged

\* the router New built has the telemetry middleware in its chain
TelemetryInstalled ==
    \E i \in 1..Len(newResult.platform.router.chain) :
        newResult.platform.router.chain[i] = "Telemetry"

\* C20: when telemetry is enabled and its initialisation fails, New returns
\* a platform and a nil error, the failure is logged, the platform has no
\* telemetry manager (so neither Start nor Stop shuts telemetry down) and
\* its chain has no telemetry middleware.
C20_FailedTelemetryDisabled ==
    TelemetryInitFailed
    => /\ newResult.err = NoError
       /\ ~newResult.platform.telemetryManager
       /\ ~TelemetryInstalled

\* the rules of Validate in the order of its checks, and their errors
RuleViolated(c, i) ==
    CASE i = 1 -> ~LoggerRule(c)
      [] i = 2 -> ~PortRule(c)
      [] i = 3 -> ~ModeRule(c)
      [] i = 4 -> c.ReadTimeout <= 0
      [] i = 5 -> c.WriteTimeout <= 0
      [] i = 6 -> c.IdleTimeout <= 0

RuleErrors ==
    <<"ErrNilLogger", "ErrInvalidPort", "ErrInvalidMode",
      "readTimeout must be positive", "writeTimeout must be positive",
      "idleTimeout must be positive">>

FirstViolation(c) ==
    IF \E i \in 1..6 : RuleViolated(c, i)
    THEN RuleErrors[CHOOSE i \in 1..6 :
                      /\ RuleViolated(c, i)
                      /\ \A j \in 1..(i - 1) : ~RuleViolated(c, j)]
    ELSE NoError

StartsPastCheck ==
    serversCreated + Cardinality({p \in Callers : pc[p] = "s_server"})

\* C1: a Start call that finds the started flag set returns ErrAlreadyStarted
\* as the next thing it does, creating no server and leaving the running
\* server, its listener, its channels and its background task as they are;
\* and over all interleavings at most one Start call ever gets past the
\* check, so at most one server is ever created.
C1_SecondStartRejected ==
    /\ [](StartsPastCheck <= 1)
    /\ [][\A p \in Callers :
            (pc[p] = "s_check" /\ started /\ pc'[p] # "s_check")
            => /\ pc'[p] = "done"
               /\ ret'[p] = "ErrAlreadyStarted"
               /\ UNCHANGED <<started, serverSet, serversCreated, inShutdown,
                              listening, active, quit, errChan, serve>>]_vars

\* C1 witness: while one caller's Start is blocked in its select with the
\* listener open, another caller's Start has returned ErrAlreadyStarted.
C1_Witness ==
    \E p, q \in Callers :
        /\ p # q
        /\ pc[q] = "s_select"
        /\ listening
        /\ serversCreated = 1
        /\ pc[p] = "done"
        /\ ret[p] = "ErrAlreadyStarted"

\* the positions of a Start call from its select to its return
StartRunning == {"s_select", "s_shutdown", "s_shutwait", "s_finish"}

\* C10: once a signal is in the channel of the Start call blocked in its
\* select, that call returns (no Start call is left between its select and
\* its return); and from the moment a shutdown has begun the listener
\* accepts no connection.
C10_SignalEndsStart ==
    /\ (\E p \in Callers : pc[p] = "s_select" /\ quit[p] = "full")
          ~> (\A p \in Callers : pc[p] \notin StartRunning)
    /\ [][(inShutdown \/ \E p \in Callers : pc[p] \in {"s_shutwait", "s_finish"})
            => active' <= active]_vars

\* C10 witness: a Start call woken by a signal has returned although a
\* connection was still active: the deadline ended its shutdown.
C10_Witness ==
    \E p \in Callers :
        /\ pc[p] = "done"
        /\ "shutdown signal received" \in logs[p]
        /\ ret[p] = "server shutdown failed"
        /\ active > 0

\* the calls of a complete shutdown sequence on this platform: the listener's
\* shutdown, then the telemetry manager's when there is a manager
ShutdownSequence == TelemetryShutdown(<<"server.Shutdown">>, tm)

\* C11: a Start call that has got past the started check blocks in its
\* select until a signal, the cancellation of its context or a startup error
\* of the background task, and after any of the three it returns only once
\* it has run the shutdown sequence (listener shutdown, then telemetry
\* shutdown when telemetry was initialised).
C11_StartShutsDownBeforeReturn ==
    [][\A p \in Callers :
         /\ (pc[p] = "s_select" /\ pc'[p] # "s_select")
               => (quit[p] = "full" \/ ctxDone[p] \/ errChan[p] = "err")
         /\ (pc[p] \in StartRunning /\ pc'[p] = "done")
               => calls'[p] = ShutdownSequence]_vars

\* the failures of a shutdown sequence
ListenerFailed(p) ==
    \E i \in 1..Len(shutdownErrors[p]) :
        shutdownErrors[p][i] = "server shutdown failed"
TelemetryFailed(p) ==
    \E i \in 1..Len(shutdownErrors[p]) :
        shutdownErrors[p][i] = "telemetry shutdown failed"

C13_ShutdownErrorsAccumulate ==
    \A p \in Callers :
        (pc[p] = "done" /\ calls[p] # <<>>)
        => /\ calls[p] = ShutdownSequence
           /\ ListenerFailed(p) => "error during server shutdown" \in logs[p]
           /\ TelemetryFailed(p) => "error shutting down telemetry" \in logs[p]
           /\ ret[p] = IF ListenerFailed(p) THEN "server shutdown failed"
                       ELSE IF TelemetryFailed(p)
                            THEN "telemetry shutdown failed"
                            ELSE "nil"
           /\ (ret[p] = "nil") <=> (~ListenerFailed(p) /\ ~TelemetryFailed(p))

\* C13 witness: a call has returned the listener's failure after both the
\* listener shutdown and the telemetry shutdown failed.
C13_Witness ==
    \E p \in Callers :
        /\ pc[p] = "done"
        /\ shutdownErrors[p] = <<"server shutdown failed",
                                 "telemetry shutdown failed">>
        /\ calls[p] = <<"server.Shutdown", "telemetryManager.Shutdown">>
        /\ ret[p] = "server shutdown failed"

\* the call of caller p has called the logger's Close
ClosedLogger(p) == \E i \in 1..Len(calls[p]) : calls[p][i] = "Logger.Close"

C23_SharedStateUnderLock ==
    [][\A p \in Callers :
         (pc'[p] # pc[p])
         => /\ (started' # started \/ serverSet' # serverSet) => mu = p
            /\ pc[p] \in {"s_check", "s_server", "s_shutdown",
                          "t_check"} => mu = p]_vars

\* C27: once the server is shutting down (by a Stop call while Start is
\* blocked, or otherwise) the background serve task sends nothing on the
\* error channel; a Start call blocked in its select with no startup error
\* waiting leaves the select only on a signal or on the cancellation of its
\* own context, whatever Stop calls have done meanwhile, and then runs the
\* shutdown sequence of its own before it returns.
C27_StopDoesNotWakeStart ==
    [][\A p \in Callers :
         /\ (errChan'[p] = "err" /\ errChan[p] # "err") => ~inShutdown
         /\ (pc[p] = "s_select" /\ errChan[p] # "err" /\ pc'[p] # "s_select")
               => /\ quit[p] = "full" \/ ctxDone[p]
                  /\ pc'[p] = "s_shutdown"
         /\ (pc[p] \in {"t_check", "t_shutwait", "t_finish"} /\ pc'[p] # pc[p])
               => /\ \A q \in Callers \ {p} : pc'[q] = pc[q]
                  /\ UNCHANGED <<quit, errChan, ctxDone>>
         /\ (pc[p] = "s_finish" /\ pc'[p] = "done")
               => calls'[p] = ShutdownSequence]_vars

\* C27 witness: a Stop call has shut the server down and returned, the serve
\* task of the Start call has ended with nothing sent, and the Start call is
\* still blocked in its select.
C27_Witness ==
    \E p, q \in Callers :
        /\ p # q
        /\ pc[q] = "done" /\ calls[q] # <<>>
        /\ inShutdown
        /\ pc[p] = "s_select"
        /\ serve[p] = "exited"
        /\ errChan[p] = "empty" /\ quit[p] = "empty" /\ ~ctxDone[p]

\* C28: the started flag, once set, stays set through every step of every
\* Start and Stop call (graceful return, startup error, shutdown error),
\* every Start call that tests it afterwards returns ErrAlreadyStarted, and
\* the platform creates at most one server in its lifetime.
C28_StartedMonotonic ==
    /\ [][started => started']_vars
    /\ [][\A p \in Callers :
            (started /\ pc[p] = "s_check" /\ pc'[p] # "s_check")
            => (pc'[p] = "done" /\ ret'[p] = "ErrAlreadyStarted")]_vars
    /\ [](serversCreated <= 1)

\* C28 witness: after a Start call has returned its startup error, a later
\* Start call on the platform has been rejected.
C28_Witness ==
    \E p \in Callers :
        /\ pc[p] = "done"
        /\ ret[p] = "ErrAlreadyStarted"
        /\ \E q \in Callers : serve[q] = "exited" /\ errChan[q] = "empty"
                                /\ ~inShutdown /\ ~listening
        /\ \A q \in Callers : pc[q] \notin StartRunning

\* ------------------------------------------------------------------------
\* Claims about request processing
\* ------------------------------------------------------------------------
\* the route handler has been invoked
HandlerRan == \E i \in 1..Len(ginCtx.ran) : ginCtx.ran[i] = "Handler"

\* the built-in middleware in the documented order
BuiltIn ==
    <<"TraceID", "ErrorHandler", "ContextCancellation", "CORS", "Telemetry",
      "BasicLogger">>

\* the flag that enables a built-in middleware; none for the error handler
EnableFlag(k, name) ==
    CASE name = "TraceID" -> k.EnableTraceID
      [] name = "ErrorHandler" -> TRUE
      [] name = "ContextCancellation" -> k.EnableContextCancellation
      [] name = "CORS" -> k.EnableCORS
      [] name = "Telemetry" -> k.EnableTelemetry
      [] name = "BasicLogger" -> k.EnableLogger

IsBuiltIn(name) == \E i \in 1..Len(BuiltIn) : BuiltIn[i] = name
IsEnabledIn(name) == EnableFlag(rq.config, name)

\* the built-in middleware invoked so far for the request, in order
BuiltInRan == SelectSeq(ginCtx.ran, IsBuiltIn)

\* the built-in middleware the request's config enables, in the documented
\* order
BuiltInExpected == SelectSeq(BuiltIn, IsEnabledIn)

\* the context-cancellation middleware has cut the chain
CutByCancellation ==
    /\ ginCtx.aborted
    /\ Len(BuiltInRan) > 0
    /\ BuiltInRan[Len(BuiltInRan)] = "ContextCancellation"

\* the last handler invoked for the request
LastRan == ginCtx.ran[Len(ginCtx.ran)]

\* the context-cancellation middleware found the context done
CancelledAtEntry ==
    /\ Len(ginCtx.ran) > 0
    /\ LastRan = "ContextCancellation"
    /\ ginCtx.aborted

\* C15: when the context-cancellation middleware runs with the request's
\* context done, it appends the context's error to the request's errors and
\* aborts, after which no middleware and no route handler is invoked and the
\* response is 499 with the cancellation message; when the context is not
\* done it adds no error, does not abort and calls the rest of the chain.
C15_ContextCancellation ==
    /\ [][(AtHandler("ContextCancellation") /\ ginCtx' # ginCtx)
            => IF reqCtx # "nil"
               THEN /\ ginCtx'.errors = Append(ginCtx.errors, Canceled)
                    /\ ginCtx'.aborted
                    /\ stack' = stack
               ELSE /\ ginCtx'.errors = ginCtx.errors
                    /\ ~ginCtx'.aborted
                    /\ stack' = Append(stack, "ContextCancellation")
                    /\ phase' = "down"]_vars
    /\ [][CancelledAtEntry => ginCtx'.ran = ginCtx.ran]_vars
    /\ []((CancelledAtEntry /\ phase = "finished")
            => /\ ginCtx.status = 499
               /\ ginCtx.bodies =
                    <<NewApiError("Request was cancelled by client", 499, <<>>)>>)

\* C15 witness: a request whose client had gone before the middleware ran
\* has ended with 499, and neither the route handler nor any middleware
\* after the context-cancellation middleware was invoked.
C15_Witness ==
    /\ phase = "finished"
    /\ CancelledAtEntry
    /\ reqCtx = "Canceled"
    /\ ginCtx.status = 499
    /\ rq.config.EnableLogger /\ rq.config.EnableCORS
    /\ ~HandlerRan

\* WithTimeout's select has returned on the expired deadline while the
\* goroutine running the rest of the chain had not finished
TimedOutUnfinished ==
    /\ phase = "up"
    /\ timer = "DeadlineExceeded"
    /\ ginCtx.aborted
    /\ worker \in {"spawned", "handler"}

\* the deadline error WithTimeout attached is among the request's errors
DeadlineAttached ==
    \E i \in 1..Len(ginCtx.errors) : ginCtx.errors[i] = DeadlineExceeded

\* C16: under WithTimeout the rest of the chain runs in a goroutine of its
\* own; when the deadline has expired before that goroutine finished, the
\* middleware attaches the deadline-exceeded error and aborts and the
\* response, whose status is fixed by the first write, is written with 408;
\* when the goroutine finishes before the context is done the middleware
\* attaches nothing and leaves the response as it is.
C16_TimeoutAnswers408 ==
    [][/\ (phase = "wait" /\ phase' = "up" /\ timer = "running")
            => (worker = "done" /\ ginCtx' = ginCtx)
       /\ TimedOutUnfinished => DeadlineAttached
       /\ (TimedOutUnfinished /\ ~ginCtx.written /\ ginCtx'.written)
            => ginCtx'.status = 408]_vars

\* the entries of the request's log with the given message
Logged(msg) == { i \in 1..Len(rlogs) : rlogs[i].msg = msg }

\* ErrorHandler has recovered a panic of the request
PanicRecovered ==
    Logged("Panic recovered") \cup Logged("Panic recovered (non-error type)") # {}

\* C17: every panic the error handler has recovered is answered with status
\* 500, whether the panic value is a string, another non-error value or an
\* error value of any kind.
C17_RecoveredPanicsAnswer500 ==
    PanicRecovered => ginCtx.status = 500

\* the response to a panic whose value is not an error
PanicResponse ==
    [Message |-> "Internal server error panic",
     Error |-> "Internal Server Error",
     Status |-> 500,
     Cause |-> <<>>]

\* C18: whatever the value of a recovered panic that is not an error value,
\* the response is the same: status 500 and the one body with the message
\* "Internal server error panic", the label "Internal Server Error" and no
\* cause; the panic is logged at error level as a non-error panic and no
\* error of the request has gone through the classification.
C18_NonErrorPanicsAlike ==
    Logged("Panic recovered (non-error type)") # {}
    => /\ ginCtx.status = 500
       /\ ginCtx.bodies = <<PanicResponse>>
       /\ ginCtx.classified = <<>>
       /\ Logged("Panic recovered") = {}
       /\ Logged("Server error") \cup Logged("Client error") = {}
       /\ \A i \in Logged("Panic recovered (non-error type)") :
              rlogs[i].level = "error"

\* C18 witness: requests whose handlers panicked with the values "boom" and
\* "42" have both been answered; this one is the second.
C18_Witness ==
    /\ phase = "finished"
    /\ rq.behaviour.do = "panic"
    /\ rq.behaviour.pv = PanicOther("42")
    /\ Logged("Panic recovered (non-error type)") # {}
    /\ ginCtx.bodies = <<PanicResponse>>

C2_PanicsRecovered ==
    /\ phase # "crashed"
    /\ (phase = "finished" /\ HandlerRan /\ rq.behaviour.do = "panic")
          => Len(ginCtx.classified) > 0 \/ Len(ginCtx.bodies) > 0

\* the reason shown for one failed field
Reason(fieldErr) ==
    IF fieldErr.Param = "" THEN fieldErr.ActualTag
    ELSE fieldErr.ActualTag \o "=" \o fieldErr.Param

\* the cause documented for failures f1..fn: n objects, one per failure
FlatCause(fieldErrs) ==
    [i \in 1..Len(fieldErrs) |-> Object(fieldErrs[i].Field, Reason(fieldErrs[i]))]

\* C6: the response to a validation-failure collection is 400 "Validation
\* error" and its cause is the flat array of one {field, reason} object per
\* failure, in order.
C6_ValidationCauseFlat ==
    \A i \in 1..Len(ginCtx.classified) :
        LET k == ginCtx.classified[i]
        IN k.err.kind = "ValidationErrors"
           => /\ k.apiErr.Status = 400
              /\ k.apiErr.Message = "Validation error"
              /\ k.apiErr.Cause = FlatCause(k.err.failures)

\* the status documented for each typed kind
KindStatus(kind) ==
    CASE kind = "NotFoundError" -> 404
      [] kind = "UnauthorizedError" -> 401
      [] kind = "ForbiddenError" -> 403
      [] kind = "ConflictError" -> 409
      [] kind = "BadRequestError" -> 400
      [] kind = "DomainError" -> 400
      [] kind = "UnprocessableEntityError" -> 422
      [] kind = "TooManyRequestsError" -> 429
      [] kind = "InternalServerError" -> 500
      [] kind = "ServiceUnavailableError" -> 503

FixedKinds ==
    { "NotFoundError", "UnauthorizedError", "ForbiddenError", "ConflictError",
      "BadRequestError", "DomainError", "UnprocessableEntityError",
      "TooManyRequestsError", "InternalServerError", "ServiceUnavailableError" }

SwitchKinds ==
    { "NotFoundError", "UnauthorizedError", "ConflictError",
      "ExternalServiceError", "BadRequestError", "ForbiddenError",
      "UnprocessableEntityError", "TooManyRequestsError",
      "InternalServerError", "ServiceUnavailableError",
      "UnmarshalTypeError", "ValidationErrors", "SyntaxError" }

\* the chain of an error holds the given sentinel
Holds(err, kind) == err.kind = kind \/ kind \in err.wraps

\* the rule of the fallback bucket that answers an error, by the documented
\* order: 1 end of input, 2 unexpected end of input, 3 cancellation,
\* 4 deadline exceeded, 5 anything else
FallbackRule(err) ==
    IF Holds(err, "EOF") THEN 1
    ELSE IF Holds(err, "ErrUnexpectedEOF") THEN 2
    ELSE IF err.kind = "Canceled" THEN 3
    ELSE IF err.kind = "DeadlineExceeded" THEN 4
    ELSE 5

FallbackStatus == <<400, 400, 499, 408, 500>>
FallbackMessage ==
    <<"Request body is empty", "Request body is incomplete",
      "Request was cancelled by client", "Request timeout exceeded",
      "An error occurred">>

\* C21: an error the type switch has no case for is answered by the first
\* matching rule of the fallback bucket, in the order end of input (400),
\* unexpected end of input (400), cancellation (499), deadline exceeded
\* (408), anything else (500 "An error occurred"); the message is the
\* rule's fixed one and never the error's own text, so any two unknown
\* errors get the same response.
C21_FallbackOrder ==
    \A i \in 1..Len(ginCtx.classified) :
        LET k == ginCtx.classified[i]
            r == FallbackRule(k.err)
        IN k.err.kind \notin SwitchKinds
           => /\ k.apiErr.Status = FallbackStatus[r]
              /\ k.apiErr.Message = FallbackMessage[r]
              /\ k.apiErr.Error = StatusText(FallbackStatus[r])
              /\ k.apiErr.Cause = <<>>
              /\ k.apiErr.Message # k.err.msg
              /\ r = 5 => k.errorType = "UnknownError"

\* C21 witness: an error holding both end-of-input sentinels has been
\* answered by the first rule.
C21_Witness ==
    \E i \in 1..Len(ginCtx.classified) :
        /\ ginCtx.classified[i].err = Join(ErrUnexpectedEOF, EOF)
        /\ ginCtx.classified[i].apiErr.Message = "Request body is empty"
        /\ ginCtx.written
        /\ ginCtx.status = 400

\* the error is a wrapper: its own dynamic type is none the classifier knows
IsWrapper(err) == err.kind \in {"wrapError", "joinError"}

\* the two sentinels matched through the wrap chain
EndOfInputKinds == {"EOF", "ErrUnexpectedEOF"}

\* C29: an error that wraps a typed kind, the cancellation sentinel or the
\* deadline sentinel, and no end-of-input sentinel, is classified as unknown
\* (500, "An error occurred"), never as what it wraps; an error that wraps
\* an end-of-input sentinel is classified as 400.
C29_NoUnwrapping ==
    \A i \in 1..Len(ginCtx.classified) :
        LET k == ginCtx.classified[i]
        IN IsWrapper(k.err)
           => IF k.err.wraps \cap EndOfInputKinds # {}
              THEN /\ k.apiErr.Status = 400
                   /\ k.errorType \in {"EmptyBody", "IncompleteBody"}
              ELSE /\ k.err.wraps # {}
                   /\ k.apiErr.Status = 500
                   /\ k.apiErr.Message = "An error occurred"
                   /\ k.errorType = "UnknownError"

\* C29 witness: an error wrapping a not-found error has been answered 500
\* with the generic message.
C29_Witness ==
    \E i \in 1..Len(ginCtx.classified) :
        /\ ginCtx.classified[i].err = Wrap(NewNotFoundError("user not found"))
        /\ ginCtx.classified[i].apiErr.Status = 500
        /\ ginCtx.written
        /\ ginCtx.status = 500
        /\ ginCtx.bodies # <<>>

\* the request-completion entries of the request logger
CompletionEntries ==
    Logged("Request completed") \cup Logged("Request completed with client error")
    \cup Logged("Request completed with server error")

\* the severity of a status by the three-tier rule
Severity(status) ==
    IF status >= 500 THEN "error" ELSE IF status >= 400 THEN "warn" ELSE "info"

\* C22: when a request that passed through the request logger has ended,
\* the status in the logger's entry is the status of the response sent, and
\* the entry's level is the severity of that status, also when the handler
\* only attached an error and the error handler wrote the response.
C22_LoggerSeesFinalStatus ==
    phase = "finished"
    => \A i \in CompletionEntries :
          /\ rlogs[i].status = ginCtx.status
          /\ rlogs[i].level = Severity(ginCtx.status)

\* the error handler is at its code after c.Next() with errors accumulated
HandlingErrors ==
    /\ phase = "up"
    /\ stack # <<>> /\ Top = "ErrorHandler"
    /\ Len(ginCtx.errors) >= 1

\* the classification log entries of the request
ClassificationEntries == Logged("Server error") \cup Logged("Client error")

\* C24: when the chain has returned to the error handler with k >= 1
\* accumulated errors, the handler classifies the first one only: it writes
\* one body, the response of error 1, takes that response's status unless
\* a status was already written, adds one classification record and one
\* classification log entry, both of error 1, and leaves the error list as
\* it is; errors 2..k change nothing.
C24_FirstErrorOnly ==
    [][(HandlingErrors /\ stack' # stack)
        => LET first == ginCtx.errors[1]
               r == Classify(first)
           IN /\ ginCtx'.bodies = Append(ginCtx.bodies, r.apiErr)
              /\ ginCtx'.status =
                    IF ginCtx.written THEN ginCtx.status ELSE r.apiErr.Status
              /\ ginCtx'.classified =
                    Append(ginCtx.classified,
                           [err |-> first, errorType |-> r.errorType,
                            apiErr |-> r.apiErr])
              /\ ginCtx'.errors = ginCtx.errors
              /\ Len(rlogs') = Len(rlogs) + 1
              /\ rlogs'[Len(rlogs')].error_type = r.errorType
              /\ rlogs'[Len(rlogs')].status = r.apiErr.Status
              /\ Len(rlogs') \in { i \in 1..Len(rlogs') :
                      rlogs'[i].msg \in {"Server error", "Client error"} }]_vars

\* C24 witness: a request has ended with two accumulated errors, a conflict
\* and then a not-found, and the one response and the one classification
\* are the conflict's.
C24_Witness ==
    /\ phase = "finished"
    /\ Len(ginCtx.errors) = 2
    /\ ginCtx.errors[1].kind = "ConflictError"
    /\ ginCtx.errors[2].kind = "NotFoundError"
    /\ ginCtx.status = 409
    /\ Len(ginCtx.bodies) = 1
    /\ Len(ginCtx.classified) = 1
    /\ Cardinality(ClassificationEntries) = 1

\* C25: the request's gin.Context (error list, abort position, keys,
\* response writer) is never within reach of two running units of work: the
\* goroutine WithTimeout spawned runs the rest of the chain on it only while
\* the serving goroutine waits in WithTimeout's select.
C25_RequestStateUnshared ==
    worker \in {"spawned", "handler"} => phase = "wait"

\* the TraceID middleware is installed and has run
TraceIDRan == Len(ginCtx.ran) >= 1 /\ ginCtx.ran[1] = "TraceID"

\* C9: once TraceID has run, and so before any handler after it runs, the
\* response header is the inbound X-Trace-Id when there is one and a
\* generated identifier otherwise, and the stored identifier GetTraceID
\* returns is that same value for as long as a string is stored; GetTraceID
\* returns "" when nothing or a non-string is stored.
C9_TraceIDPropagated ==
    /\ TraceIDRan =>
          /\ rq.header # "" => ginCtx.header = rq.header
          /\ rq.header = "" => ginCtx.header \in UUIDs
          /\ ginCtx.keys.exists
          /\ ginCtx.keys.type = "string" => GetTraceID(ginCtx) = ginCtx.header
    /\ (Len(ginCtx.ran) >= 2 /\ rq.handlers[1] = "TraceID") => ginCtx.header # ""
    /\ (~ginCtx.keys.exists \/ ginCtx.keys.type # "string")
          => GetTraceID(ginCtx) = ""
    /\ \A i \in 1..Len(rlogs) :
          rlogs[i].trace_id \in {"", ginCtx.header}

\* C9 witness: a finished request that carried X-Trace-Id has it in the
\* response header, in the stored identifier and in its log entry.
C9_Witness ==
    /\ phase = "finished"
    /\ rq.header = "abc-123"
    /\ ginCtx.header = "abc-123"
    /\ GetTraceID(ginCtx) = "abc-123"
    /\ \E i \in 1..Len(rlogs) : rlogs[i].trace_id = "abc-123"

\* the request logger was invoked for the request
LoggerReached == \E i \in 1..Len(ginCtx.ran) : ginCtx.ran[i] = "BasicLogger"

\* C30: a request that has ended has one request-completion entry when the
\* request logger was reached and its downstream chain returned to it, and
\* none when a panic of the downstream handler unwound through the logger
\* and was recovered by the error handler, or when the context-cancellation
\* middleware cut the chain before the logger, or when the logger is not
\* in the chain; no request ever has two.
C30_OneCompletionEntry ==
    /\ Cardinality(CompletionEntries) <= 1
    /\ phase = "finished"
       => /\ PanicRecovered => CompletionEntries = {}
          /\ CutByCancellation => CompletionEntries = {}
          /\ ~LoggerReached => CompletionEntries = {}
          /\ (LoggerReached /\ ~PanicRecovered)
               => Cardinality(CompletionEntries) = 1

\* C30 witness: a request whose handler panicked below the request logger
\* has ended, answered by the error handler, with no completion entry.
C30_Witness ==
    /\ phase = "finished"
    /\ LoggerReached
    /\ HandlerRan
    /\ PanicRecovered
    /\ ginCtx.written
    /\ CompletionEntries = {}

=============================================================================
